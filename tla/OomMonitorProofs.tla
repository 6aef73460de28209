--------------------------- MODULE OomMonitorProofs ---------------------------
(***************************************************************************)
(* Theorems about OomMonitor, for any number of clients, listeners, calls  *)
(* and handlers, whatever the monitors read: a monitor has one chain of    *)
(* runs unless a start is rushed, and any stop() leaves the run under way,  *)
(* or one run for each handler made; the loop over the listeners tells all  *)
(* of them unless one is removed on the way; a swelling heap is compared    *)
(* with the reading before unless another caller has put its own in its     *)
(* place; and a heap over the threshold is noticed.                        *)
(*                                                                         *)
(* And about ThreadInfo, whose list it reports, for any number of threads: *)
(* those of the runtime are told as such.                                  *)
(***************************************************************************)
EXTENDS OomMonitor, ThreadInfo, ListTheorems, FiniteSetTheorems

Iterators == [next : Nat \ {0}, mods : Nat, told : SUBSET Listeners,
              owed : SUBSET Listeners, removed : BOOLEAN]

\* The list, the iterator over it and the records have their shape.
ShapeInv ==
    /\ scenario \in Scenarios
    /\ listeners \in Seq(Listeners) /\ Distinct(listeners)
    /\ iter \in Iterators
    /\ modCount \in Nat /\ iter.mods <= modCount
    /\ own = [heap |-> own.heap, disturbed |-> own.disturbed]
    /\ DOMAIN verdict = Monitors

\* Who is owed the report has been told, or is still ahead of the iterator.
Ahead(l) == \E i \in iter.next .. Len(listeners) : listeners[i] = l

TellInv ==
    at = "report" /\ ~iter.removed => \A l \in iter.owed : l \in iter.told \/ Ahead(l)

\* The iterator stays within a list that nobody changes.
WithinInv == at = "report" /\ iter.mods = modCount => iter.next <= Len(listeners) + 1

\* The last record is the monitor's own.
OwnInv == own.heap # -1 /\ ~own.disturbed => lastRecord = own.heap

IInv == ShapeInv /\ TellInv /\ WithinInv /\ OwnInv

-----------------------------------------------------------------------------
LEMMA InitInv == Init => IInv
<1> SUFFICES ASSUME Init PROVE IInv
  OBVIOUS
<1>1. listeners \in Seq(Listeners) /\ Distinct(listeners)
  BY DEF Init, Distinct
<1>2. iter \in Iterators /\ iter.mods = 0
  BY DEF Init, NoIter, Iterators
<1>3. own = [heap |-> own.heap, disturbed |-> own.disturbed] /\ own.heap = -1
  BY DEF Init
<1>4. DOMAIN verdict = Monitors /\ modCount = 0 /\ at = "idle" /\ scenario \in Scenarios
  BY DEF Init
<1> QED
  BY <1>1, <1>2, <1>3, <1>4 DEF IInv, ShapeInv, TellInv, WithinInv, OwnInv

\* A list that only grows at its end leaves everybody ahead who was.
LEMMA ListChanged ==
    ASSUME IInv, NEW new \in Seq(Listeners), Distinct(new), ChangeList(new),
           Len(new) >= Len(listeners) => \A i \in 1 .. Len(listeners) : new[i] = listeners[i]
    PROVE  IInv'
<1> USE DEF ChangeList, ListKeeps, judging
<1>1. /\ iter' \in Iterators /\ iter'.next = iter.next /\ iter'.mods = iter.mods
      /\ iter'.told = iter.told /\ iter'.owed \subseteq iter.owed
      /\ iter'.removed = (iter.removed \/ Len(new) < Len(listeners))
  <2> DEFINE o == iter.owed \cap {new[i] : i \in DOMAIN new}
             r == iter.removed \/ Len(new) < Len(listeners)
  <2>1. iter \in Iterators
    BY DEF IInv, ShapeInv
  <2>2. o \in SUBSET Listeners /\ o \subseteq iter.owed
    BY <2>1 DEF Iterators
  <2>3. r \in BOOLEAN
    OBVIOUS
  <2>4. iter' = [iter EXCEPT !.owed = o, !.removed = r]
    OBVIOUS
  <2> HIDE DEF o, r
  <2>5. iter' \in Iterators /\ iter'.next = iter.next /\ iter'.mods = iter.mods
        /\ iter'.told = iter.told /\ iter'.owed = o /\ iter'.removed = r
    BY <2>1, <2>2, <2>3, <2>4 DEF Iterators
  <2> QED
    BY <2>2, <2>5 DEF r
<1>2. modCount \in Nat /\ modCount' = modCount + 1 /\ iter.mods \in Nat /\ iter.mods <= modCount
  BY DEF IInv, ShapeInv, Iterators
<1>3. ShapeInv'
  BY <1>1, <1>2 DEF IInv, ShapeInv
<1>4. ASSUME ~iter'.removed, NEW l, Ahead(l) PROVE Ahead(l)'
  <2>1. ~(Len(new) < Len(listeners))
    BY <1>1, <1>4
  <2>2. Len(new) \in Nat /\ Len(listeners) \in Nat /\ iter.next \in Nat \ {0}
    BY DEF IInv, ShapeInv, Iterators
  <2>3. PICK i \in iter.next .. Len(listeners) : listeners[i] = l
    BY <1>4 DEF Ahead
  <2>4. i \in iter'.next .. Len(new) /\ new[i] = l
    BY <1>1, <2>1, <2>2, <2>3
  <2> QED
    BY <2>4 DEF Ahead
<1>5. TellInv'
  BY <1>1, <1>4 DEF IInv, TellInv
<1>6. WithinInv'
  BY <1>1, <1>2 DEF WithinInv
<1>7. OwnInv'
  BY DEF IInv, OwnInv
<1> QED
  BY <1>3, <1>5, <1>6, <1>7 DEF IInv

LEMMA ListStep ==
    ASSUME IInv, NEW l \in Listeners, AddListener(l) \/ DelListener(l)
    PROVE  IInv'
<1>0. listeners \in Seq(Listeners) /\ Distinct(listeners) /\ Len(listeners) \in Nat
  BY DEF IInv, ShapeInv
<1>1. CASE AddListener(l)
  <2>1. l \notin ToSet(listeners)
    BY <1>1 DEF AddListener, ToSet
  <2>2. Append(listeners, l) \in Seq(Listeners) /\ Distinct(Append(listeners, l))
    BY <1>0, <2>1, Appended
  <2>3. \A i \in 1 .. Len(listeners) : Append(listeners, l)[i] = listeners[i]
    BY <1>0
  <2> QED
    BY <1>1, <2>2, <2>3, ListChanged DEF AddListener
<1>2. CASE DelListener(l)
  <2>1. l \in ToSet(listeners)
    BY <1>2 DEF DelListener, ToSet
  <2>2. /\ RemoveFirst(listeners, l) \in Seq(Listeners) /\ Distinct(RemoveFirst(listeners, l))
        /\ Len(RemoveFirst(listeners, l)) = Len(listeners) - 1
    BY <1>0, <2>1, Removed
  <2> QED
    BY <1>0, <1>2, <2>2, ListChanged DEF DelListener
<1> QED
  BY <1>1, <1>2

LEMMA RunStep == ASSUME IInv, NEW m \in Monitors, Run(m) PROVE IInv'
<1>1. iter' = [next |-> 1, mods |-> modCount, told |-> {},
               owed |-> {listeners[i] : i \in DOMAIN listeners}, removed |-> FALSE]
  BY DEF Run
<1>2. /\ listeners \in Seq(Listeners) /\ Distinct(listeners) /\ modCount \in Nat
      /\ UNCHANGED <<listeners, modCount>> /\ DOMAIN verdict' = Monitors
      /\ scenario' \in Scenarios
  BY DEF IInv, ShapeInv, Run, list
<1>3. DOMAIN listeners = 1 .. Len(listeners) /\ Len(listeners) \in Nat
  BY <1>2
<1>4. iter' \in Iterators /\ iter'.mods = modCount
  BY <1>1, <1>2 DEF Iterators
<1>5. TellInv' /\ WithinInv'
  BY <1>1, <1>2, <1>3 DEF TellInv, WithinInv, Ahead
<1>6. own' = [heap |-> own'.heap, disturbed |-> own'.disturbed] /\ OwnInv'
  <2>1. PICK reading \in scenario.readings[m] :
          /\ lastRecord' = IF m = "memory" THEN reading.heap ELSE lastRecord
          /\ own' = IF m = "memory" THEN [heap |-> reading.heap, disturbed |-> FALSE] ELSE own
    BY DEF Run
  <2>2. CASE m = "memory"
    BY <2>1, <2>2 DEF OwnInv
  <2>3. CASE m # "memory"
    BY <2>1, <2>3 DEF IInv, ShapeInv, OwnInv
  <2> QED
    BY <2>2, <2>3
<1> QED
  BY <1>2, <1>4, <1>5, <1>6 DEF IInv, ShapeInv

LEMMA ReportStep == ASSUME IInv, ReportOom PROVE IInv'
<1>1. UNCHANGED <<scenario, listeners, modCount, lastRecord, own, verdict>>
  BY DEF ReportOom, list, judging
<1>2. Len(listeners) \in Nat /\ iter \in Iterators /\ iter.next \in Nat \ {0}
  BY DEF IInv, ShapeInv, Iterators
<1>3. CASE UNCHANGED iter /\ at' # "report"
  BY <1>1, <1>3 DEF IInv, ShapeInv, TellInv, WithinInv, OwnInv
<1>4. CASE /\ ~ReportOver /\ iter.mods = modCount /\ UNCHANGED at
           /\ iter' = [iter EXCEPT !.next = @ + 1, !.told = @ \cup {listeners[iter.next]}]
  <2>1. iter.next \in 1 .. Len(listeners)
    BY <1>2, <1>4 DEF IInv, WithinInv, ReportOver, ReportOom
  <2>2. listeners[iter.next] \in Listeners
    BY <2>1 DEF IInv, ShapeInv
  <2>3. /\ iter' \in Iterators
        /\ iter'.next = iter.next + 1 /\ iter'.told = iter.told \cup {listeners[iter.next]}
        /\ iter'.owed = iter.owed /\ iter'.removed = iter.removed /\ iter'.mods = iter.mods
    <3> DEFINE n == iter.next + 1
               e == iter.told \cup {listeners[iter.next]}
    <3>1. n \in Nat \ {0} /\ e \in SUBSET Listeners
      BY <1>2, <2>2 DEF Iterators
    <3>2. iter' = [iter EXCEPT !.next = n, !.told = e]
      BY <1>4
    <3> HIDE DEF n, e
    <3>3. iter' \in Iterators /\ iter'.next = n /\ iter'.told = e
          /\ iter'.owed = iter.owed /\ iter'.removed = iter.removed /\ iter'.mods = iter.mods
      BY <1>2, <3>1, <3>2 DEF Iterators
    <3> QED
      BY <3>3 DEF n, e
  <2>4. ShapeInv' /\ OwnInv'
    BY <1>1, <2>3 DEF IInv, ShapeInv, OwnInv
  <2>5. ASSUME NEW l, Ahead(l), listeners[iter.next] # l PROVE Ahead(l)'
    BY <1>1, <1>2, <2>3, <2>5 DEF Ahead
  <2>6. TellInv' /\ WithinInv'
    BY <1>1, <1>2, <1>4, <2>1, <2>3, <2>5 DEF IInv, TellInv, WithinInv
  <2> QED
    BY <2>4, <2>6 DEF IInv
<1> QED
  BY <1>3, <1>4 DEF ReportOom

\* The other steps touch neither the list nor the records, and start no report.
LEMMA OtherStep ==
    ASSUME IInv, UNCHANGED <<scenario, list, judging, iter>>, at' = at \/ at' # "report"
    PROVE  IInv'
BY DEF list, judging, IInv, ShapeInv, TellInv, Ahead, WithinInv, OwnInv

LEMMA Step == IInv /\ [Next]_vars => IInv'
<1> SUFFICES ASSUME IInv, [Next]_vars PROVE IInv'
  OBVIOUS
<1>1. CASE UNCHANGED vars
  BY <1>1, OtherStep DEF vars, looping
<1>2. ASSUME NEW c \in Clients, ClientStep(c) \/ StartCheck(c) \/ StopCheck(c) PROVE IInv'
  BY <1>2, OtherStep DEF ClientStep, StartCheck, StopCheck, StartPost, StartAssign, StopRead,
     StopRemove, StopClear, looping
<1>3. ASSUME NEW l \in Listeners, AddListener(l) \/ DelListener(l) PROVE IInv'
  BY <1>3, ListStep
<1>4. CASE DelAllListeners
  <2>1. <<>> \in Seq(Listeners) /\ Distinct(<<>>) /\ Len(<<>>) = 0
    BY DEF Distinct
  <2>2. Len(<<>>) >= Len(listeners) => \A i \in 1 .. Len(listeners) : <<>>[i] = listeners[i]
    BY <2>1 DEF IInv, ShapeInv
  <2>3. ChangeList(<<>>)
    BY <1>4 DEF DelAllListeners
  <2> QED
    BY <2>1, <2>2, <2>3, ListChanged
<1>5. CASE MemInfoGet
  <2>1. /\ own' = [heap |-> own.heap, disturbed |-> TRUE]
        /\ UNCHANGED <<scenario, list, iter, at, verdict>>
    BY <1>5 DEF MemInfoGet, looping, IInv, ShapeInv
  <2>2. own'.disturbed /\ own' = [heap |-> own'.heap, disturbed |-> own'.disturbed]
    BY <2>1
  <2> QED
    BY <2>1, <2>2 DEF list, IInv, ShapeInv, TellInv, Ahead, WithinInv, OwnInv
<1>6. ASSUME NEW m \in Monitors, DispatchAny(m) PROVE IInv'
  BY <1>6, OtherStep DEF DispatchAny, Dispatch
<1>7. ASSUME NEW m \in Running, Run(m) PROVE IInv'
  <2>1. m \in Monitors
    BY ScenariosAssumption DEF Running, IInv, ShapeInv, IsScenario
  <2> QED
    BY <1>7, <2>1, RunStep
<1>8. CASE ReadHandler \/ PostAgain
  BY <1>8, OtherStep DEF ReadHandler, PostAgain
<1>9. scenario.callers \subseteq Clients
  BY ScenariosAssumption DEF IInv, ShapeInv, IsScenario
<1> QED
  BY <1>1, <1>2, <1>3, <1>4, <1>5, <1>6, <1>7, <1>8, <1>9, ReportStep
     DEF Next, NewCall, LooperStep

-----------------------------------------------------------------------------
(* The theorems.                                                           *)

\* The inductive invariant: who is owed a report is told or ahead, the iterator stays
\* within the list, and the last record is the monitor's own until another is made.
THEOREM Invariant == Spec => []IInv
  BY InitInv, Step, PTL DEF Spec

\* However often listeners come and go while a report goes round: whoever was there
\* all the while is told, unless one was removed.
THEOREM EverybodyTold == Spec => []ToldUnlessRemoved
<1>1. IInv => ToldUnlessRemoved
  <2> SUFFICES ASSUME IInv, at = "report", ReportOver, ~iter.removed
               PROVE  iter.owed \subseteq iter.told
    BY DEF ToldUnlessRemoved
  <2>1. Len(listeners) \in Nat
    BY DEF IInv, ShapeInv
  <2>2. \A l : ~Ahead(l)
    BY <2>1 DEF Ahead, ReportOver
  <2> QED
    BY <2>2 DEF IInv, TellInv
<1> QED
  BY Invariant, <1>1, PTL

\* Whatever the thresholds and the heap: a heap that swells between two readings of
\* the monitor is reported, unless somebody else has read it in between.
THEOREM SwellReported == Spec => SwellReportedUnlessDisturbed
<1> DEFINE A == at = "run" /\ at' # "run" /\ cur = "memory"
                  /\ own.heap # -1 /\ ~own.disturbed /\ lastRecord' - own.heap > Config.swell
                => verdict'["memory"] = "report"
<1>1. IInv /\ [Next]_vars => [A]_vars
  <2> SUFFICES ASSUME IInv, Next, at = "run", at' # "run", cur = "memory",
                      own.heap # -1, ~own.disturbed, lastRecord' - own.heap > Config.swell
               PROVE  verdict'["memory"] = "report"
    OBVIOUS
  <2>1. Run("memory")
    <3>1. PICK k \in Running : Run(k)
      BY DEF Next, NewCall, ClientStep, LooperStep, StartCheck, StopCheck, StartPost, StartAssign,
         StopRead, StopRemove, StopClear, AddListener, DelListener, DelAllListeners, ChangeList,
         ListKeeps, MemInfoGet, DispatchAny, Dispatch, ReportOom, ReadHandler, PostAgain, looping
    <3> QED
      BY <3>1 DEF Run
  <2>2. PICK mem \in scenario.readings["memory"] :
          LET v == Verdict("memory", mem) IN
          /\ lastRecord' = mem.heap
          /\ verdict' = [verdict EXCEPT !["memory"] =
               IF v.type # "none" THEN "report" ELSE IF v.confirming THEN "confirming" ELSE "calm"]
    BY <2>1 DEF Run
  <2>3. lastRecord = own.heap /\ DOMAIN verdict = Monitors
    BY DEF IInv, ShapeInv, OwnInv
  <2>4. Verdict("memory", mem) = MemoryVerdict(mem, lastRecord, last["memory"], count["memory"])
    BY DEF Verdict
  <2>5. MemoryVerdict(mem, lastRecord, last["memory"], count["memory"]).type # "none"
    BY <2>2, <2>3 DEF MemoryVerdict, Report
  <2> QED
    BY <2>2, <2>3, <2>4, <2>5 DEF Monitors
<1>2. SwellReportedUnlessDisturbed <=> [][A]_vars
  BY DEF SwellReportedUnlessDisturbed
<1> QED
  BY Invariant, <1>1, <1>2, PTL DEF Spec

-----------------------------------------------------------------------------
(* The types of the variables, and the counts.                             *)

\* The ratio of a heap that is no larger than the largest is a percentage.
LEMMA RatioIsNat ==
    ASSUME NEW heap \in 0 .. MaxHeap
    PROVE  HeapUsedRatio(heap) \in Nat
<1> DEFINE x == 100 * (MaxHeap - heap) + (MaxHeap \div 2)
           q == x \div MaxHeap
<1>1. MaxHeap \in Nat \ {0} /\ heap \in Int /\ 0 <= heap /\ heap <= MaxHeap
  BY MaxHeapAssumption
<1>2. MaxHeap \div 2 \in Int /\ 0 <= MaxHeap \div 2 /\ MaxHeap \div 2 < MaxHeap
  BY <1>1
<1>3. x \in Int /\ 0 <= x /\ x < 101 * MaxHeap
  BY <1>1, <1>2
<1> HIDE DEF x
<1>4. q \in Int /\ MaxHeap * q <= x
  BY <1>1, <1>3
<1>5. q <= 100
  <2> SUFFICES ASSUME q >= 101 PROVE FALSE
    BY <1>4
  <2> HIDE DEF q
  <2>1. MaxHeap * 101 <= MaxHeap * q
    BY <1>1, <1>4
  <2> QED
    BY <1>1, <1>3, <1>4, <2>1
<1> QED
  BY <1>4, <1>5 DEF HeapUsedRatio, x

\* A reading that awaits confirmation leaves the count below its limit.
LEMMA CountBelowLimit ==
    ASSUME TypeOK, NEW m \in Monitors, NEW reading \in scenario.readings[m]
    PROVE  /\ CountAfter(m, Verdict(m, reading)) \in 0 .. OVER_THRESHOLD_COUNT_LIMIT - 1
           /\ Level(m, reading) \in Nat
           /\ m = "memory" => reading.heap \in Nat
<1>1. count[m] \in 0 .. OVER_THRESHOLD_COUNT_LIMIT - 1
  BY DEF TypeOK
<1>2. ASSUME NEW type, NEW fallen, NEW n \in Nat
      PROVE  Over(type, fallen, n).confirming => n + 1 # OVER_THRESHOLD_COUNT_LIMIT
  BY DEF Over, Report, Confirming, Calm
<1>3. Verdict(m, reading).confirming => count[m] + 1 # OVER_THRESHOLD_COUNT_LIMIT
  <2>1. count[m] \in Nat
    BY <1>1 DEF OVER_THRESHOLD_COUNT_LIMIT
  <2> QED
    BY <1>2, <2>1 DEF Verdict, MemoryVerdict, CountVerdict, Report, Calm, Monitors
<1>4. CountAfter(m, Verdict(m, reading)) \in 0 .. OVER_THRESHOLD_COUNT_LIMIT - 1
  BY <1>1, <1>3 DEF CountAfter, OVER_THRESHOLD_COUNT_LIMIT
<1>5. /\ m = "memory" => reading.heap \in 0 .. MaxHeap
      /\ m # "memory" => reading \in Nat
  BY ScenariosAssumption DEF TypeOK, IsScenario, Monitors
<1> QED
  BY <1>4, <1>5, RatioIsNat, MaxHeapAssumption DEF Level

LEMMA InitTypes == Init => TypeOK
<1> SUFFICES ASSUME Init PROVE TypeOK
  OBVIOUS
<1>1. Running \subseteq Monitors /\ cur \in Running
  BY ScenariosAssumption DEF Init, IsScenario, Running
<1> QED
  BY <1>1, BoundsAssumption DEF Init, TypeOK, Null, OVER_THRESHOLD_COUNT_LIMIT

LEMMA TypesStep == IInv' /\ TypeOK /\ [Next]_vars => TypeOK'
<1> SUFFICES ASSUME IInv', TypeOK, [Next]_vars PROVE TypeOK'
  OBVIOUS
<1> USE BoundsAssumption
<1>0. listeners' \in Seq(Listeners) /\ modCount' \in Nat
  BY DEF IInv, ShapeInv
<1>1. CASE UNCHANGED vars
  BY <1>1 DEF vars, looping, judging, list, clients, TypeOK, Running
<1>2. ASSUME NEW c \in Clients, ClientStep(c) \/ StartCheck(c) \/ StopCheck(c) PROVE TypeOK'
  <2> USE DEF Goto, Call, looping, judging, list, TypeOK, Running, Null
  <2>1. CASE StartPost(c)
    <3>1. gens' \in Gens
      BY <2>1 DEF StartPost, Gens
    <3>2. pending' \in [Monitors -> [Gens -> Nat]]
      BY <2>1 DEF StartPost
    <3> QED
      BY <2>1, <3>1, <3>2 DEF StartPost
  <2>2. CASE StartAssign(c)
    BY <2>2 DEF StartAssign
  <2>3. CASE StopRead(c)
    BY <2>3 DEF StopRead
  <2>4. CASE StopRemove(c)
    BY <2>4 DEF StopRemove
  <2>5. CASE StopClear(c)
    BY <2>5 DEF StopClear
  <2>6. CASE StartCheck(c)
    BY <2>6 DEF StartCheck
  <2>7. CASE StopCheck(c)
    BY <2>7 DEF StopCheck
  <2> QED
    BY <1>2, <2>1, <2>2, <2>3, <2>4, <2>5, <2>6, <2>7 DEF ClientStep
<1>3. ASSUME NEW new, ChangeList(new), calls' \in 0 .. MaxCalls PROVE TypeOK'
  BY <1>0, <1>3 DEF ChangeList, ListKeeps, judging, TypeOK, Running
<1>4. CASE MemInfoGet
  <2>1. PICK mem \in scenario.readings["memory"] : lastRecord' = mem.heap
    BY <1>4 DEF MemInfoGet
  <2>2. mem.heap \in Nat
    BY <2>1, CountBelowLimit DEF Monitors
  <2>3. own' \in [heap : Nat \cup {-1}, disturbed : BOOLEAN]
    BY <1>4 DEF MemInfoGet, TypeOK
  <2> QED
    BY <1>4, <2>1, <2>2, <2>3 DEF MemInfoGet, Call, looping, list, TypeOK, Running
<1>5. ASSUME NEW m \in Monitors, DispatchAny(m) PROVE TypeOK'
  <2>1. PICK g \in Gens : Dispatch(m, g)
    BY <1>5 DEF DispatchAny
  <2>2. pending' \in [Monitors -> [Gens -> Nat]]
    BY <2>1 DEF Dispatch, TypeOK
  <2>3. cur' \in Running
    BY <1>5, <2>1 DEF DispatchAny, Dispatch
  <2> QED
    BY <2>1, <2>2, <2>3 DEF Dispatch, judging, list, clients, TypeOK, Running
<1>6. ASSUME NEW m \in Running, Run(m) PROVE TypeOK'
  <2>1. m \in Monitors
    BY ScenariosAssumption DEF Running, TypeOK, IsScenario
  <2>2. PICK reading \in scenario.readings[m] :
          LET v == Verdict(m, reading) IN
          /\ count' = [count EXCEPT ![m] = CountAfter(m, v)]
          /\ last' = [last EXCEPT ![m] = Level(m, reading)]
          /\ lastRecord' = IF m = "memory" THEN reading.heap ELSE lastRecord
          /\ own' = IF m = "memory" THEN [heap |-> reading.heap, disturbed |-> FALSE] ELSE own
          /\ verdict' = [verdict EXCEPT ![m] =
                IF v.type # "none" THEN "report" ELSE IF v.confirming THEN "confirming" ELSE "calm"]
          /\ at' = IF v.type # "none" THEN "report" ELSE "repost"
    BY <1>6 DEF Run
  <2>3. /\ CountAfter(m, Verdict(m, reading)) \in 0 .. OVER_THRESHOLD_COUNT_LIMIT - 1
        /\ Level(m, reading) \in Nat
        /\ m = "memory" => reading.heap \in Nat
    BY <2>1, CountBelowLimit
  <2>4. /\ count' \in [Monitors -> 0 .. OVER_THRESHOLD_COUNT_LIMIT - 1]
        /\ last' \in [Monitors -> Nat]
    BY <2>1, <2>2, <2>3 DEF TypeOK
  <2>5. lastRecord' \in Nat \cup {-1} /\ own' \in [heap : Nat \cup {-1}, disturbed : BOOLEAN]
    BY <2>2, <2>3 DEF TypeOK
  <2>6. /\ verdict' \in [Monitors -> {"none", "calm", "confirming", "report"}]
        /\ at' \in {"report", "repost"}
    BY <2>2 DEF TypeOK
  <2> QED
    BY <1>0, <1>6, <2>4, <2>5, <2>6 DEF Run, list, clients, TypeOK, Running
<1>7. CASE ReportOom
  BY <1>7 DEF ReportOom, judging, list, clients, TypeOK, Running
<1>8. CASE ReadHandler
  BY <1>8 DEF ReadHandler, judging, list, clients, TypeOK, Running
<1>9. CASE PostAgain
  <2>1. pending' \in [Monitors -> [Gens -> Nat]]
    BY <1>9, ScenariosAssumption, SMTT(30) DEF PostAgain, TypeOK, Running, IsScenario, Null
  <2> QED
    BY <1>9, <2>1 DEF PostAgain, judging, list, clients, TypeOK, Running
<1>10. scenario.callers \subseteq Clients
  BY ScenariosAssumption DEF TypeOK, IsScenario
<1>11. ASSUME NEW kind, Call(kind) PROVE calls' \in 0 .. MaxCalls
  BY <1>11 DEF Call, TypeOK
<1> QED
  BY <1>1, <1>2, <1>3, <1>4, <1>5, <1>6, <1>7, <1>8, <1>9, <1>10, <1>11
     DEF Next, NewCall, LooperStep, AddListener, DelListener, DelAllListeners

-----------------------------------------------------------------------------
(* The chains of messages.                                                 *)

\* Before the first start() gets to its posts there is nothing, and no handler.
BeforeFirst ==
    gens = 0 => /\ handler = Null
                /\ \A m \in Monitors : \A g \in Gens : pending[m][g] = 0
                /\ at \in {"idle", "dead"}
                /\ \A c \in Clients : cpc[c] \in {"out", "post"}

Assigning(c) == cpc[c] = "assign"

\* One handler is assigned once, before any stop() gets to see it.
OneAssigned ==
    gens = 1 => /\ handler \in {Null, 1}
                /\ \A c, d \in Clients : Assigning(c) /\ Assigning(d) => c = d
                /\ \A c \in Clients : Assigning(c) =>
                     ch[c] = 1 /\ handler = Null /\ \A d \in Clients : cpc[d] \notin {"read", "remove", "clear"}

\* A stop() that takes away what it read last has one handler to read.
Aimed ==
    gens = 1 => \A c \in Clients : cpc[c] = "remove" => ch[c] = 1 \/ (ch[c] = Null /\ handler = Null)

OneAlive == \A m, k \in Running : Alive(m) /\ Alive(k) => m = k

\* Once a stop() has removed the messages of the only handler, one chain is left.
StoppedInv ==
    gens = 1 /\ \/ handler = Null /\ \A c \in Clients : ~Assigning(c)
                \/ \E c \in Clients : cpc[c] = "clear"
    => OneAlive

\* Handlers are known once they are made, and a message is posted to one of them.
Known == handler <= gens /\ h <= gens /\ \A c \in Clients : ch[c] <= gens

Unused == \A m \in Monitors : \A g \in Gens : g > gens => pending[m][g] = 0

ChainInv ==
    /\ OneChainUnlessRushed
    /\ BeforeFirst /\ OneAssigned /\ Aimed /\ StoppedInv /\ Known /\ Unused

LEMMA InitChains == Init => ChainInv
<1> SUFFICES ASSUME Init PROVE ChainInv
  OBVIOUS
<1>1. Running \subseteq Monitors
  BY ScenariosAssumption DEF Init, IsScenario, Running
<1>2. \A m \in Monitors : ~Alive(m) /\ \A g \in Gens : pending[m][g] = 0
  BY DEF Init, Alive, Runs
<1>3. OneChainUnlessRushed /\ Unused /\ Known
  BY <1>1, <1>2 DEF Init, Null, Known, OneChainUnlessRushed, OneChain, Unused, Alive
<1> QED
  BY <1>2, <1>3 DEF Init, ChainInv, BeforeFirst, OneAssigned, Aimed, StoppedInv, OneAlive

\* The steps of the looper keep what is alive to what was, and each chain single.
ClientsKept == UNCHANGED <<scenario, handler, gens, cpc, ch, rushed>>

LEMMA LooperChains ==
    ASSUME TypeOK, TypeOK', ChainInv, ClientsKept,
           \A m \in Monitors : Alive(m)' => Alive(m),
           OneChain => OneChain', Known', Unused', BeforeFirst'
    PROVE  ChainInv'
<1>1. Running' = Running /\ Running \subseteq Monitors /\ Running # {}
  BY ScenariosAssumption DEF ClientsKept, Running, TypeOK, IsScenario
<1>2. OneAlive => OneAlive'
  BY <1>1 DEF OneAlive
<1>3. OneChainUnlessRushed'
  BY <1>1 DEF OneChainUnlessRushed, ChainInv, ClientsKept
<1>4. OneAssigned' /\ Aimed'
  BY DEF ChainInv, ClientsKept, OneAssigned, Aimed, Assigning
<1>5. StoppedInv'
  BY <1>2 DEF ChainInv, ClientsKept, StoppedInv, Assigning
<1> QED
  BY <1>3, <1>4, <1>5 DEF ChainInv

LEMMA DispatchChains ==
    ASSUME TypeOK, TypeOK', ChainInv, NEW n \in Monitors, DispatchAny(n)
    PROVE  ChainInv'
<1>1. PICK k \in Gens : Dispatch(n, k)
  BY DEF DispatchAny
<1>2. /\ pending \in [Monitors -> [Gens -> Nat]] /\ Running \subseteq Monitors
      /\ n \in Running /\ at = "idle" /\ at' = "run" /\ cur' = n /\ pending[n][k] > 0
      /\ pending' = [pending EXCEPT ![n][k] = @ - 1] /\ ClientsKept
  BY <1>1, ScenariosAssumption
     DEF DispatchAny, Dispatch, TypeOK, IsScenario, Running, ClientsKept, clients
<1>3. \A m \in Monitors, g \in Gens :
        pending'[m][g] = IF m = n /\ g = k THEN pending[n][k] - 1 ELSE pending[m][g]
  BY <1>2
<1>4. \A m \in Monitors : Alive(m)' => Alive(m)
  BY <1>2, <1>3 DEF Alive, Runs
<1>5. ASSUME OneChain PROVE OneChain'
  <2>1. pending'[n][k] = 0 /\ \A g \in Gens : pending'[n][g] = 0
    BY <1>2, <1>3, <1>5 DEF OneChain
  <2> QED
    BY <1>2, <1>3, <1>5, <2>1 DEF OneChain, Runs, ClientsKept, Running
<1>6. Unused'
  BY <1>2, <1>3 DEF Unused, ChainInv, ClientsKept, TypeOK
<1>7. BeforeFirst' /\ Known'
  BY <1>1, <1>2 DEF BeforeFirst, Known, ChainInv, ClientsKept, Dispatch
<1> QED
  BY <1>2, <1>4, <1>5, <1>6, <1>7, LooperChains

LEMMA PostChains == ASSUME TypeOK, TypeOK', ChainInv, PostAgain PROVE ChainInv'
<1>1. /\ pending \in [Monitors -> [Gens -> Nat]] /\ Running \subseteq Monitors /\ cur \in Running
      /\ at = "post" /\ at' = "idle" /\ cur' = cur /\ ClientsKept /\ h \in {Null} \cup Gens
  BY ScenariosAssumption
     DEF PostAgain, TypeOK, IsScenario, Running, ClientsKept, clients
<1>2. \A m \in Monitors, g \in Gens :
        pending'[m][g] = IF m = cur /\ g = h /\ h # Null THEN pending[m][g] + 1 ELSE pending[m][g]
  BY <1>1 DEF PostAgain
<1>3. \A m \in Monitors : Alive(m)' => Alive(m)
  BY <1>1, <1>2 DEF Alive, Runs
<1>4. ASSUME OneChain PROVE OneChain'
  <2>1. \A g \in Gens : pending[cur][g] = 0
    BY <1>1, <1>4 DEF OneChain, Runs
  <2> QED
    BY <1>1, <1>2, <1>4, <2>1 DEF OneChain, Runs, ClientsKept, Running
<1>5. gens # 0
  BY <1>1 DEF ChainInv, BeforeFirst
<1>6. Known' /\ BeforeFirst'
  <2>1. gens \in Nat /\ h' = 0
    BY BoundsAssumption DEF TypeOK, Gens, PostAgain, Null
  <2> QED
    BY <1>5, <1>1, <2>1 DEF ChainInv, BeforeFirst, Known, ClientsKept
<1>7. Unused'
  <2>1. \A g \in Gens : g > gens => g # h
    BY DEF ChainInv, Known, Gens, TypeOK
  <2> QED
    BY <1>1, <1>2, <2>1 DEF ChainInv, Unused, ClientsKept
<1> QED
  BY <1>1, <1>3, <1>4, <1>6, <1>7, LooperChains

\* A run that goes on or ends posts nothing and starts nothing.
LEMMA RunChains ==
    ASSUME TypeOK, TypeOK', ChainInv, ClientsKept, UNCHANGED <<pending, cur>>,
           at \notin {"idle", "dead"}, at' # "idle", h' \in {h, handler}
    PROVE  ChainInv'
<1>1. \A m \in Monitors : Alive(m)' => Alive(m)
  BY DEF Alive, Runs
<1>2. OneChain => OneChain'
  BY DEF OneChain, Runs, Running, ClientsKept
<1>3. gens # 0
  BY DEF ChainInv, BeforeFirst
<1>4. BeforeFirst' /\ Known' /\ Unused'
  BY <1>3 DEF ChainInv, BeforeFirst, Known, Unused, ClientsKept
<1> QED
  BY <1>1, <1>2, <1>4, LooperChains

\* What start() and stop() do.
LEMMA StartPostChains ==
    ASSUME TypeOK, TypeOK', ChainInv, NEW c \in Clients, StartPost(c)
    PROVE  ChainInv'
<1>1. /\ pending \in [Monitors -> [Gens -> Nat]] /\ Running \subseteq Monitors
      /\ gens \in Nat /\ gens' = gens + 1 /\ gens' \in Gens
      /\ UNCHANGED <<scenario, handler, at, cur, h>>
      /\ cpc[c] = "post" /\ cpc' = [cpc EXCEPT ![c] = "assign"] /\ ch' = [ch EXCEPT ![c] = gens']
      /\ cpc \in [Clients -> {"out", "post", "assign", "read", "remove", "clear"}]
      /\ ch \in [Clients -> {Null} \cup Gens]
  <2>1. gens \in Nat /\ gens < MaxGens /\ gens' = gens + 1
    BY BoundsAssumption DEF StartPost, TypeOK, Gens
  <2>2. gens' \in Gens
    BY <2>1, BoundsAssumption DEF Gens
  <2> QED
    BY <2>1, <2>2, ScenariosAssumption DEF StartPost, Goto, TypeOK, IsScenario, Running, looping
<1>2. \A m \in Monitors, g \in Gens :
        pending'[m][g] = IF m \in Running /\ g = gens' THEN 1 ELSE pending[m][g]
  BY <1>1 DEF StartPost
<1>3. ASSUME ~rushed' PROVE OneChain'
  <2>1. \A m \in Running : ~Alive(m)
    BY <1>3 DEF StartPost
  <2>2. \A m \in Running : ~Runs(m) /\ \A g \in Gens : pending[m][g] = 0
    BY <1>1, <2>1 DEF Alive
  <2>3. Running' = Running /\ \A m \in Running : ~Runs(m)'
    BY <1>1, <2>2 DEF Runs, Running
  <2>4. \A m \in Running : \A g \in Gens : pending'[m][g] = IF g = gens' THEN 1 ELSE 0
    BY <1>1, <1>2, <2>2
  <2> QED
    BY <2>3, <2>4 DEF OneChain
<1>4. Known' /\ Unused'
  <2>1. handler' <= gens' /\ h' <= gens' /\ \A d \in Clients : ch'[d] <= gens'
    <3>1. /\ handler \in Nat /\ h \in Nat
          /\ \A d \in Clients : ch[d] \in Nat /\ ch'[d] \in {gens', ch[d]}
      <4>1. Gens \subseteq Nat /\ Null \in Nat
        BY BoundsAssumption DEF Gens, Null
      <4>2. handler \in Nat /\ h \in Nat
        BY <4>1 DEF TypeOK
      <4>3. \A d \in Clients : ch[d] \in Nat /\ ch'[d] \in {gens', ch[d]}
        BY <1>1, <4>1
      <4> QED
        BY <4>2, <4>3
    <3> QED
      BY <1>1, <3>1 DEF ChainInv, Known
  <2>2. ASSUME NEW m \in Monitors, NEW g \in Gens, g > gens' PROVE pending'[m][g] = 0
    <3>1. g # gens' /\ g > gens
      BY <1>1, <2>2 DEF Gens
    <3> QED
      BY <1>2, <3>1 DEF ChainInv, Unused
  <2> QED
    BY <2>1, <2>2 DEF Known, Unused
<1>5. OneAssigned' /\ Aimed' /\ StoppedInv'
  <2> SUFFICES ASSUME gens' = 1 PROVE OneAssigned' /\ Aimed' /\ StoppedInv'
    BY DEF OneAssigned, Aimed, StoppedInv
  <2>1. gens = 0 /\ handler = Null /\ \A d \in Clients : cpc[d] \in {"out", "post"}
    BY <1>1 DEF ChainInv, BeforeFirst
  <2>2. \A d \in Clients : cpc'[d] = IF d = c THEN "assign" ELSE cpc[d]
    BY <1>1
  <2> QED
    BY <1>1, <2>1, <2>2 DEF OneAssigned, Aimed, StoppedInv, Assigning
<1> QED
  BY <1>1, <1>3, <1>4, <1>5 DEF ChainInv, OneChainUnlessRushed, BeforeFirst

LEMMA StopRemoveChains ==
    ASSUME TypeOK, TypeOK', ChainInv, NEW c \in Clients, StopRemove(c)
    PROVE  ChainInv'
<1>1. /\ pending \in [Monitors -> [Gens -> Nat]] /\ Running \subseteq Monitors
      /\ UNCHANGED <<scenario, handler, gens, at, cur, h, ch, rushed>>
      /\ cpc[c] = "remove" /\ cpc' = [cpc EXCEPT ![c] = "clear"]
      /\ cpc \in [Clients -> {"out", "post", "assign", "read", "remove", "clear"}]
  BY ScenariosAssumption DEF StopRemove, Goto, TypeOK, IsScenario, Running, looping
<1>2. \A m \in Monitors, g \in Gens :
        pending'[m][g] = IF g = ch[c] THEN 0 ELSE pending[m][g]
  BY DEF StopRemove
<1>3. \A m \in Monitors : Alive(m)' => Alive(m)
  BY <1>1, <1>2 DEF Alive, Runs
<1>4. OneChainUnlessRushed'
  <2>1. \A m \in Monitors, g \in Gens : pending'[m][g] = pending[m][g] \/ pending'[m][g] = 0
    BY <1>2
  <2>2. ASSUME OneChain PROVE OneChain'
    <3>1. Running' = Running /\ \A m \in Running : Runs(m)' <=> Runs(m)
      BY <1>1 DEF Running, Runs
    <3>2. ASSUME NEW m \in Running, NEW g \in Gens, pending'[m][g] > 0
          PROVE  /\ pending'[m][g] = pending[m][g]
                 /\ pending'[m][g] = 1 /\ ~Runs(m)
                 /\ \A k \in Gens : k # g => pending'[m][k] = 0
      <4>1. pending'[m][g] = pending[m][g]
        BY <1>1, <2>1, <3>2
      <4> QED
        BY <1>1, <2>1, <2>2, <3>2, <4>1 DEF OneChain
    <3>3. \A m \in Monitors, g \in Gens : pending'[m][g] = 0 \/ pending'[m][g] > 0
      BY <1>1, <2>1
    <3> QED
      BY <1>1, <3>1, <3>2, <3>3 DEF OneChain
  <2> QED
    BY <1>1, <2>2 DEF ChainInv, OneChainUnlessRushed
<1>5. Known' /\ Unused' /\ BeforeFirst'
  BY <1>1, <1>2 DEF ChainInv, Known, Unused, BeforeFirst
<1>6. OneAssigned' /\ Aimed'
  BY <1>1 DEF ChainInv, OneAssigned, Aimed, Assigning
<1>7. ASSUME gens' = 1 PROVE OneAlive'
  <2>1. CASE ch[c] = 1
    <3>1. \A m \in Monitors : \A g \in Gens : pending'[m][g] = 0
      <4>1. \A m \in Monitors, g \in Gens : g > 1 => pending[m][g] = 0
        BY <1>1, <1>7 DEF ChainInv, Unused
      <4> QED
        BY <1>2, <2>1, <4>1 DEF Gens
    <3> QED
      BY <1>1, <3>1 DEF OneAlive, Alive, Runs, Running
  <2>2. CASE ch[c] = Null /\ handler = Null
    <3>1. \A d \in Clients : ~Assigning(d)
      BY <1>1, <1>7 DEF ChainInv, OneAssigned
    <3>2. OneAlive
      BY <1>1, <1>7, <2>2, <3>1 DEF ChainInv, StoppedInv
    <3> QED
      BY <1>1, <1>3, <3>2 DEF OneAlive, Running
  <2> QED
    BY <1>1, <1>7, <2>1, <2>2 DEF ChainInv, Aimed
<1> QED
  BY <1>4, <1>5, <1>6, <1>7 DEF ChainInv, StoppedInv

\* The other steps of a client: what is alive stays as it is.
LEMMA ClientChains ==
    ASSUME TypeOK, TypeOK', ChainInv, NEW c \in Clients,
           StartCheck(c) \/ StartAssign(c) \/ StopCheck(c) \/ StopRead(c) \/ StopClear(c)
    PROVE  ChainInv'
<1>1. /\ cpc \in [Clients -> {"out", "post", "assign", "read", "remove", "clear"}]
      /\ ch \in [Clients -> {Null} \cup Gens] /\ gens \in Nat
      /\ UNCHANGED <<scenario, gens, pending, at, cur, h, rushed>>
  BY BoundsAssumption
     DEF TypeOK, StartCheck, StartAssign, StopCheck, StopRead, StopClear, looping, Gens
<1>2. OneChainUnlessRushed' /\ Unused' /\ (OneAlive' <=> OneAlive)
  BY <1>1 DEF ChainInv, OneChainUnlessRushed, OneChain, OneAlive, Alive, Runs, Running, Unused
<1> SUFFICES Known' /\ BeforeFirst' /\ OneAssigned' /\ Aimed' /\ StoppedInv'
  BY <1>2 DEF ChainInv
<1> USE DEF ChainInv, BeforeFirst, OneAssigned, Aimed, StoppedInv, Known, Assigning, Goto, Null
<1>3. CASE StartCheck(c)
  BY <1>1, <1>2, <1>3 DEF StartCheck
<1>4. CASE StartAssign(c)
  <2>1. /\ cpc[c] = "assign" /\ cpc' = [cpc EXCEPT ![c] = "out"]
        /\ handler' = ch[c] /\ UNCHANGED ch
    BY <1>4 DEF StartAssign
  <2>2. gens # 0
    BY <2>1
  <2>3. Known' /\ BeforeFirst'
    BY <1>1, <2>1, <2>2
  <2>4. ASSUME gens = 1
        PROVE  /\ handler' \in {Null, 1}
               /\ \A d \in Clients : cpc'[d] \notin {"assign", "read", "remove", "clear"}
    <3>1. ch[c] \in {Null, 1}
      BY <1>1, <2>4, BoundsAssumption DEF Gens
    <3>2. \A d \in Clients : cpc'[d] = IF d = c THEN "out" ELSE cpc[d]
      BY <1>1, <2>1
    <3> QED
      BY <2>1, <2>4, <3>1, <3>2
  <2>5. gens = 1 => ch[c] = 1
    BY <2>1
  <2> QED
    BY <1>1, <2>1, <2>3, <2>4, <2>5
<1>5. CASE StopCheck(c)
  BY <1>1, <1>2, <1>5 DEF StopCheck
<1>6. CASE StopRead(c)
  BY <1>1, <1>2, <1>6 DEF StopRead
<1>7. CASE StopClear(c)
  BY <1>1, <1>2, <1>7 DEF StopClear
<1> QED
  BY <1>3, <1>4, <1>5, <1>6, <1>7

LEMMA ChainStep == TypeOK /\ TypeOK' /\ ChainInv /\ [Next]_vars => ChainInv'
<1> SUFFICES ASSUME TypeOK, TypeOK', ChainInv, [Next]_vars PROVE ChainInv'
  OBVIOUS
<1>1. ASSUME ClientsKept, UNCHANGED <<pending, at, cur, h>> PROVE ChainInv'
  BY <1>1 DEF ClientsKept, ChainInv, OneChainUnlessRushed, OneChain, Runs, Alive, OneAlive, Running,
     BeforeFirst, OneAssigned, Assigning, Aimed, StoppedInv, Known, Unused
<1>2. CASE UNCHANGED vars
  BY <1>1, <1>2 DEF vars, looping, clients, ClientsKept
<1>3. ASSUME NEW new, ChangeList(new) PROVE ChainInv'
  BY <1>1, <1>3 DEF ChangeList, ListKeeps, ClientsKept
<1>4. CASE MemInfoGet
  BY <1>1, <1>4 DEF MemInfoGet, looping, ClientsKept
<1>5. ASSUME NEW m \in Running, Run(m) PROVE ChainInv'
  <2>1. at' \in {"report", "repost"}
    BY <1>5 DEF Run
  <2> QED
    BY <1>5, <2>1, RunChains DEF Run, clients, ClientsKept
<1>6. CASE ReportOom
  BY <1>6, RunChains DEF ReportOom, clients, ClientsKept
<1>7. CASE ReadHandler
  BY <1>7, RunChains DEF ReadHandler, clients, ClientsKept
<1>8. scenario.callers \subseteq Clients
  BY ScenariosAssumption DEF TypeOK, IsScenario
<1> QED
  BY <1>2, <1>3, <1>4, <1>5, <1>6, <1>7, <1>8, DispatchChains, PostChains, StartPostChains,
     StopRemoveChains, ClientChains
     DEF Next, NewCall, ClientStep, LooperStep, AddListener, DelListener, DelAllListeners

-----------------------------------------------------------------------------
(* What a stop() leaves, when one thread calls.                            *)

\* What waits of the monitors ms, with the handlers gs.
Waits(p, gs, ms) == UNION {{<<m, g, n>> : n \in 1 .. p[m][g]} : m \in ms, g \in gs}

Small(S, n) == IsFiniteSet(S) /\ Cardinality(S) <= n

LEMMA WaitsHas ==
    ASSUME NEW p, NEW gs, NEW ms, NEW x
    PROVE  x \in Waits(p, gs, ms) <=>
               \E m \in ms, g \in gs : \E n \in 1 .. p[m][g] : x = <<m, g, n>>
<1> DEFINE Of(m, g) == {<<m, g, n>> : n \in 1 .. p[m][g]}
<1>1. \A m, g : x \in Of(m, g) <=> \E n \in 1 .. p[m][g] : x = <<m, g, n>>
  OBVIOUS
<1> HIDE DEF Of
<1>3. ASSUME NEW S, S = {Of(m, g) : m \in ms, g \in gs} PROVE x \in UNION S <=> \E m \in ms, g \in gs : x \in Of(m, g)
  <2>1. x \in UNION S <=> \E s \in S : x \in s
    OBVIOUS
  <2>2. \A s : s \in S <=> \E m \in ms, g \in gs : s = Of(m, g)
    BY <1>3
  <2> QED
    BY <2>1, <2>2
<1>2. x \in UNION {Of(m, g) : m \in ms, g \in gs} <=> \E m \in ms, g \in gs : x \in Of(m, g)
  BY <1>3
<1>4. Waits(p, gs, ms) = UNION {Of(m, g) : m \in ms, g \in gs}
  BY DEF Waits, Of
<1>5. x \in Waits(p, gs, ms) <=> \E m \in ms, g \in gs : x \in Of(m, g)
  BY <1>2, <1>4
<1> QED
  BY <1>1, <1>5

\* No more waits than did of these handlers.
LEMMA WaitsKept ==
    ASSUME NEW p \in [Monitors -> [Gens -> Nat]], NEW q \in [Monitors -> [Gens -> Nat]],
           NEW gs \in SUBSET Gens, NEW fs \in SUBSET Gens, NEW ms \in SUBSET Monitors,
           \A m \in ms, g \in gs : q[m][g] = 0 \/ (g \in fs /\ q[m][g] <= p[m][g])
    PROVE  Waits(q, gs, ms) \subseteq Waits(p, fs, ms)
<1> SUFFICES ASSUME NEW m \in ms, NEW g \in gs, NEW n \in 1 .. q[m][g]
             PROVE  <<m, g, n>> \in Waits(p, fs, ms)
  BY WaitsHas
<1>1. q[m][g] \in Nat /\ m \in Monitors /\ g \in Gens
  OBVIOUS
<1>2. g \in fs /\ p[m][g] \in Nat /\ n \in 1 .. p[m][g]
  BY <1>1
<1> QED
  BY <1>2, WaitsHas

\* One message less, or one more.
LEMMA WaitsOneLess ==
    ASSUME NEW p \in [Monitors -> [Gens -> Nat]], NEW gs \in SUBSET Gens,
           NEW ms \in SUBSET Monitors, NEW m \in ms, NEW g \in gs, p[m][g] > 0
    PROVE  LET e == <<m, g, p[m][g]>>
           IN  /\ e \in Waits(p, gs, ms)
               /\ Waits([p EXCEPT ![m][g] = @ - 1], gs, ms) \subseteq Waits(p, gs, ms) \ {e}
<1> DEFINE q == [p EXCEPT ![m][g] = @ - 1]
           e == <<m, g, p[m][g]>>
<1>1. p[m][g] \in Nat \ {0} /\ m \in Monitors /\ g \in Gens
  OBVIOUS
<1>2. e \in Waits(p, gs, ms)
  <2>1. p[m][g] \in 1 .. p[m][g]
    BY <1>1
  <2> QED
    BY <2>1, WaitsHas
<1>3. ASSUME NEW x \in Waits(q, gs, ms) PROVE x \in Waits(p, gs, ms) \ {e}
  <2> HIDE DEF q
  <2>1. PICK k \in ms, j \in gs : \E n \in 1 .. q[k][j] : x = <<k, j, n>>
    BY <1>3, WaitsHas
  <2>2. PICK n \in 1 .. q[k][j] : x = <<k, j, n>>
    BY <2>1
  <2> USE DEF q
  <2>3. q[k][j] = IF k = m /\ j = g THEN p[m][g] - 1 ELSE p[k][j]
    BY <1>1
  <2>4. n \in 1 .. p[k][j] /\ (k = m /\ j = g => n # p[m][g])
    <3>1. p[k][j] \in Nat
      OBVIOUS
    <3> HIDE DEF q
    <3> QED
      BY <1>1, <2>3, <3>1
  <2> QED
    BY <2>2, <2>4, WaitsHas
<1> QED
  BY <1>2, <1>3

LEMMA WaitsOneMore ==
    ASSUME NEW p \in [Monitors -> [Gens -> Nat]], NEW gs \in SUBSET Gens,
           NEW ms \in SUBSET Monitors, NEW m \in ms, NEW g \in gs
    PROVE  Waits([p EXCEPT ![m][g] = @ + 1], gs, ms)
               \subseteq Waits(p, gs, ms) \cup {<<m, g, p[m][g] + 1>>}
<1> DEFINE q == [p EXCEPT ![m][g] = @ + 1]
<1> SUFFICES ASSUME NEW x \in Waits(q, gs, ms), x # <<m, g, p[m][g] + 1>>
             PROVE  x \in Waits(p, gs, ms)
  OBVIOUS
<1>1. p[m][g] \in Nat /\ m \in Monitors /\ g \in Gens
  OBVIOUS
<1> HIDE DEF q
<1>2. PICK k \in ms, j \in gs : \E n \in 1 .. q[k][j] : x = <<k, j, n>>
  BY WaitsHas
<1> USE DEF q
<1>3. PICK n \in 1 .. q[k][j] : x = <<k, j, n>>
  BY <1>2
<1>4. q[k][j] = IF k = m /\ j = g THEN p[m][g] + 1 ELSE p[k][j]
  BY <1>1
<1>5. n \in 1 .. p[k][j]
  <2>1. p[k][j] \in Nat /\ (k = m /\ j = g => n # p[m][g] + 1)
    BY <1>3
  <2> HIDE DEF q
  <2> QED
    BY <1>1, <1>4, <2>1
<1> QED
  BY <1>3, <1>5, WaitsHas

\* No message is the run under way.
LEMMA WaitsNoRun ==
    ASSUME NEW p, NEW gs \in SUBSET Gens, NEW ms, NEW m
    PROVE  <<m, Null, 0>> \notin Waits(p, gs, ms)
<1>1. Null \notin Gens
  BY BoundsAssumption DEF Gens, Null
<1> QED
  BY <1>1, WaitsHas

\* How many there are.
LEMMA SmallPart ==
    ASSUME NEW S, NEW T \in SUBSET S, NEW n \in Int, Small(S, n)
    PROVE  Small(T, n)
<1>1. IsFiniteSet(T) /\ Cardinality(T) <= Cardinality(S) /\ Cardinality(T) \in Nat
      /\ Cardinality(S) \in Nat
  BY FS_Subset, FS_CardinalityType DEF Small
<1> QED
  BY <1>1 DEF Small

LEMMA SmallMore ==
    ASSUME NEW S, NEW x, NEW T \in SUBSET (S \cup {x}), NEW n \in Int, Small(S, n)
    PROVE  Small(T, n + 1)
<1>1. Cardinality(S) \in Nat
  BY FS_CardinalityType DEF Small
<1>2. Small(S \cup {x}, n + 1)
  BY <1>1, FS_AddElement DEF Small
<1> QED
  BY <1>2, SmallPart

LEMMA SmallSwap ==
    ASSUME NEW S, NEW y \in S, NEW x, NEW T \in SUBSET ((S \ {y}) \cup {x}), NEW n \in Int,
           Small(S, n)
    PROVE  Small(T, n)
<1>1. IsFiniteSet(S \ {y}) /\ Cardinality(S \ {y}) = Cardinality(S) - 1 /\ Cardinality(S) \in Nat
  BY FS_RemoveElement, FS_CardinalityType DEF Small
<1>2. Small(S \ {y}, n - 1)
  BY <1>1 DEF Small
<1> DEFINE l == n - 1
<1>3. Small(T, l + 1)
  <2>1. l \in Int /\ Small(S \ {y}, l)
    BY <1>2
  <2> HIDE DEF l
  <2> QED
    BY <2>1, SmallMore
<1> QED
  BY <1>3

\* The run under way, as Left has it.
TheRun == <<cur, Null, 0>>

UnderWay == at \notin {"idle", "dead"}

\* A stop() has taken its messages away, or none is needed: nothing is started.
Cleared == \E c \in Clients : cpc[c] = "clear"
Live == ~Cleared /\ (handler # Null \/ \E c \in Clients : Assigning(c))

\* What is not of the handler in use, or about to be.
Old == Waits(pending, Gens \ {gens}, Running)
         \cup (IF at = "post" /\ h \notin {Null, gens} THEN {TheRun} ELSE {})

Bound == IF rushed THEN gens ELSE 1

\* Where the only caller stands tells which handler there is.
OneClientInv ==
    /\ \A c \in Clients : cpc[c] # "out" => scenario.callers = {c}
    /\ \A c \in Clients : cpc[c] \in {"post", "assign"} => handler = Null
    /\ \A c \in Clients : cpc[c] = "assign" => ch[c] = gens
    /\ \A c \in Clients : cpc[c] \in {"read", "remove", "clear"} => handler # Null
    /\ \A c \in Clients : cpc[c] \in {"remove", "clear"} => ch[c] = handler
    /\ handler # Null => handler = gens

\* While a handler is in use, one place less than the bound is taken by the others: that
\* is the place for the run which the next stop() may find under way.
LeftInv ==
    /\ rushed => gens >= 2
    /\ OneCaller => OneClientInv
    /\ OneCaller /\ Live => Small(Old, Bound - 1)
    /\ OneCaller /\ ~Live => Small(Left, Bound)

LeftTypes ==
    /\ pending \in [Monitors -> [Gens -> Nat]] /\ Running \in SUBSET Monitors
    /\ gens \in Nat /\ (gens # 0 => gens \in Gens) /\ cur \in Running
    /\ handler \in {Null} \cup Gens /\ h \in {Null} \cup Gens /\ Null \notin Gens
    /\ cpc \in [Clients -> {"out", "post", "assign", "read", "remove", "clear"}]
    /\ ch \in [Clients -> {Null} \cup Gens] /\ Null = 0 /\ scenario.callers \subseteq Clients

LEMMA TypesLeft == TypeOK => LeftTypes
<1> SUFFICES ASSUME TypeOK PROVE LeftTypes
  OBVIOUS
<1>1. Gens \subseteq Nat /\ 0 \notin Gens /\ Null = 0
  BY BoundsAssumption DEF Gens, Null
<1>2. gens \in Nat /\ (gens # 0 => gens \in Gens)
  BY <1>1 DEF TypeOK
<1> QED
  BY <1>1, <1>2, ScenariosAssumption DEF TypeOK, LeftTypes, IsScenario, Running

\* Left is what waits, and the run: in a state, and in the next.
LEMMA LeftIs ==
    ASSUME LeftTypes
    PROVE  Left = Waits(pending, Gens, Running) \cup (IF UnderWay THEN {TheRun} ELSE {})
<1>1. Going = IF UnderWay THEN {TheRun} ELSE {}
  BY DEF Going, Runs, UnderWay, TheRun, LeftTypes
<1>2. Waiting = Waits(pending, Gens, Running)
  BY DEF Waiting, Waits
<1> QED
  BY <1>1, <1>2 DEF Left

LEMMA NextLeftIs ==
    ASSUME LeftTypes'
    PROVE  Left' = Waits(pending', Gens, Running') \cup (IF UnderWay' THEN {TheRun'} ELSE {})
<1>1. Going' = IF UnderWay' THEN {TheRun'} ELSE {}
  BY DEF Going, Runs, UnderWay, TheRun, LeftTypes
<1>2. Waiting' = Waits(pending', Gens, Running')
  BY DEF Waiting, Waits
<1> QED
  BY <1>1, <1>2 DEF Left

LEMMA InitLeft == Init => LeftInv
<1> SUFFICES ASSUME Init PROVE LeftInv
  OBVIOUS
<1>0. LeftTypes
  BY InitTypes, TypesLeft
<1>1. ~rushed /\ ~Live /\ OneClientInv
  BY DEF Init, Live, Cleared, Assigning, OneClientInv, Null
<1>2. Left = {}
  <2>1. Waits(pending, Gens, Running) = {}
    <3>1. \A m \in Running, g \in Gens : 1 .. pending[m][g] = {}
      BY <1>0 DEF Init, LeftTypes
    <3> QED
      BY <3>1, WaitsHas
  <2> QED
    BY <1>0, <2>1, LeftIs DEF Init, UnderWay
<1>3. Small(Left, Bound)
  BY <1>1, <1>2, FS_EmptySet DEF Small, Bound
<1> QED
  BY <1>1, <1>3 DEF LeftInv

\* What depends on the calls only.
LEMMA SameCalls ==
    ASSUME LeftInv, ClientsKept, OneCaller /\ Live => Old' \subseteq Old \/ Small(Old', Bound - 1),
           OneCaller /\ ~Live => Left' \subseteq Left \/ Small(Left', Bound), gens \in Nat
    PROVE  LeftInv'
<1>1. OneCaller' = OneCaller /\ Live' = Live /\ Bound' = Bound /\ (OneClientInv' <=> OneClientInv)
      /\ (rushed => gens >= 2)' = (rushed => gens >= 2)
  BY DEF ClientsKept, OneCaller, Live, Cleared, Assigning, Bound, OneClientInv
<1>2. Bound \in Int /\ Bound - 1 \in Int
  BY DEF Bound
<1>3. OneCaller /\ Live => Small(Old', Bound - 1)
  <2> DEFINE b == Bound - 1
  <2>1. b \in Int /\ (OneCaller /\ Live => Small(Old, b))
    BY <1>2 DEF LeftInv
  <2> HIDE DEF b
  <2>2. OneCaller /\ Live /\ Old' \subseteq Old => Small(Old', b)
    BY <2>1, SmallPart
  <2> QED
    BY <2>2 DEF b
<1>4. OneCaller /\ ~Live => Small(Left', Bound)
  <2>1. OneCaller /\ ~Live /\ Left' \subseteq Left => Small(Left', Bound)
    BY <1>2, SmallPart DEF LeftInv
  <2> QED
    BY <2>1
<1>5. /\ OneCaller' /\ Live' => Small(Old', Bound' - 1)
      /\ OneCaller' /\ ~Live' => Small(Left', Bound')
  BY <1>1, <1>3, <1>4
<1>6. Small(Old, Bound - 1)' = Small(Old', Bound' - 1) /\ Small(Left, Bound)' = Small(Left', Bound')
  BY DEF Small
<1> QED
  BY <1>1, <1>5, <1>6 DEF LeftInv

LEMMA WaitsFewer ==
    ASSUME LeftTypes, LeftTypes', NEW gs \in SUBSET Gens,
           \A m \in Running, g \in gs : pending'[m][g] <= pending[m][g]
    PROVE  Waits(pending', gs, Running) \subseteq Waits(pending, gs, Running)
<1>1. /\ pending \in [Monitors -> [Gens -> Nat]] /\ pending' \in [Monitors -> [Gens -> Nat]]
      /\ Running \in SUBSET Monitors
  BY DEF LeftTypes
<1> QED
  BY <1>1, WaitsKept

LEMMA DispatchLeft ==
    ASSUME LeftTypes, LeftTypes', LeftInv, NEW n \in Monitors, DispatchAny(n)
    PROVE  LeftInv'
<1>1. PICK k \in Gens : Dispatch(n, k)
  BY DEF DispatchAny
<1>2. /\ ClientsKept /\ n \in Running /\ at = "idle" /\ at' = "run" /\ pending[n][k] > 0
      /\ pending' = [pending EXCEPT ![n][k] = @ - 1] /\ cur' = n /\ Running' = Running
  BY <1>1 DEF DispatchAny, Dispatch, ClientsKept, clients, Running
<1> DEFINE e == <<n, k, pending[n][k]>>
<1>3. /\ e \in Waits(pending, Gens, Running)
      /\ Waits(pending', Gens, Running) \subseteq Waits(pending, Gens, Running) \ {e}
  BY <1>2, WaitsOneLess DEF LeftTypes
<1>4. Waits(pending', Gens \ {gens}, Running) \subseteq Waits(pending, Gens \ {gens}, Running)
  <2>1. \A m \in Running, g \in Gens : pending'[m][g] = pending[m][g] \/ pending'[m][g] = pending[m][g] - 1
    BY <1>2 DEF LeftTypes
  <2>2. \A m \in Running, g \in Gens : pending[m][g] \in Nat
    BY DEF LeftTypes
  <2>3. \A m \in Running, g \in Gens \ {gens} : pending'[m][g] <= pending[m][g]
    BY <2>1, <2>2
  <2> QED
    BY <2>3, WaitsFewer
<1>5. Old' \subseteq Old
  BY <1>2, <1>4 DEF Old, Waits, ClientsKept
<1>6. OneCaller /\ ~Live => Small(Left', Bound)
  <2>1. Left = Waits(pending, Gens, Running)
    BY <1>2, LeftIs DEF UnderWay
  <2>2. Left' = Waits(pending', Gens, Running) \cup {TheRun'}
    BY <1>2, NextLeftIs DEF UnderWay
  <2>3. Left' \in SUBSET ((Left \ {e}) \cup {TheRun'}) /\ e \in Left
    BY <1>3, <2>1, <2>2
  <2>4. Bound \in Int
    BY DEF Bound, LeftTypes
  <2> HIDE DEF e
  <2> QED
    BY <2>3, <2>4, SmallSwap DEF LeftInv
<1> QED
  BY <1>2, <1>5, <1>6, SameCalls DEF LeftTypes

\* A run that goes on or ends has posted nothing yet.
LEMMA RunLeft ==
    ASSUME LeftTypes, LeftTypes', LeftInv, ClientsKept, UNCHANGED <<pending, cur>>,
           at \notin {"idle", "dead"}, at' # "idle", at' = "post" => h' = handler
    PROVE  LeftInv'
<1>1. Running' = Running /\ TheRun' = TheRun
  BY DEF Running, ClientsKept, TheRun
<1>2. Left' \subseteq Left
  BY <1>1, LeftIs, NextLeftIs DEF UnderWay
<1>3. OneCaller /\ Live => Old' \subseteq Old
  <2>1. OneCaller => handler \in {Null, gens}
    BY DEF LeftInv, OneClientInv
  <2> QED
    BY <1>1, <2>1 DEF Old, Waits, ClientsKept
<1> QED
  BY <1>2, <1>3, SameCalls DEF LeftTypes

LEMMA PostLeft ==
    ASSUME LeftTypes, LeftTypes', LeftInv, PostAgain
    PROVE  LeftInv'
<1>1. /\ ClientsKept /\ at = "post" /\ at' = "idle" /\ cur' = cur /\ Running' = Running
      /\ pending' = IF h = Null THEN pending ELSE [pending EXCEPT ![cur][h] = @ + 1]
  BY DEF PostAgain, ClientsKept, clients, Running
<1>2. Bound \in Int /\ Bound - 1 \in Int
  BY DEF Bound, LeftTypes
<1>3. Left = Waits(pending, Gens, Running) \cup {TheRun} /\ Left' = Waits(pending', Gens, Running)
  BY <1>1, LeftIs, NextLeftIs DEF UnderWay
<1>4. Old' = Waits(pending', Gens \ {gens}, Running)
  BY <1>1 DEF Old, Waits, ClientsKept
<1>5. Waits(pending, Gens \ {gens}, Running) \subseteq Old
  BY DEF Old
<1>6. TheRun \notin Waits(pending, Gens, Running)
      /\ TheRun \notin Waits(pending, Gens \ {gens}, Running)
  BY WaitsNoRun DEF TheRun
<1>7. CASE h = Null
  <2>1. Left' \subseteq Left /\ Old' \subseteq Old
    BY <1>1, <1>3, <1>4, <1>5, <1>7
  <2> QED
    BY <1>1, <2>1, SameCalls DEF LeftTypes
<1>8. CASE h # Null
  <2> DEFINE x == <<cur, h, pending[cur][h] + 1>>
  <2>0. h \in Gens /\ cur \in Running /\ pending' = [pending EXCEPT ![cur][h] = @ + 1]
    BY <1>1, <1>8 DEF LeftTypes
  <2>1. Left' \subseteq (Left \ {TheRun}) \cup {x} /\ TheRun \in Left
    <3>1. Waits(pending', Gens, Running) \subseteq Waits(pending, Gens, Running) \cup {x}
      BY <2>0, WaitsOneMore DEF LeftTypes
    <3> HIDE DEF x
    <3> QED
      BY <1>3, <1>6, <3>1
  <2>2. OneCaller /\ ~Live => Small(Left', Bound)
    <3> HIDE DEF x
    <3> QED
      BY <1>2, <2>1, SmallSwap DEF LeftInv
  <2>3. CASE h = gens
    <3>1. \A m \in Running, g \in Gens \ {gens} : pending'[m][g] = pending[m][g]
      BY <2>0, <2>3 DEF LeftTypes
    <3>2. \A m \in Running, g \in Gens \ {gens} : pending'[m][g] <= pending[m][g]
      BY <3>1 DEF LeftTypes
    <3>3. Waits(pending', Gens \ {gens}, Running) \subseteq Waits(pending, Gens \ {gens}, Running)
      BY <3>2, WaitsFewer
    <3> QED
      BY <1>1, <1>4, <1>5, <2>2, <3>3, SameCalls DEF LeftTypes
  <2>4. CASE h # gens
    <3>1. h \in Gens \ {gens} /\ Gens \ {gens} \in SUBSET Gens
      BY <2>0, <2>4
    <3>2. Old' \subseteq Waits(pending, Gens \ {gens}, Running) \cup {x}
      BY <1>4, <2>0, <3>1, WaitsOneMore DEF LeftTypes
    <3>3. Old = Waits(pending, Gens \ {gens}, Running) \cup {TheRun}
      BY <1>1, <1>8, <2>4 DEF Old
    <3> HIDE DEF x
    <3>4. Old' \subseteq (Old \ {TheRun}) \cup {x} /\ TheRun \in Old
      BY <1>6, <3>2, <3>3
    <3> DEFINE b == Bound - 1
    <3>5. b \in Int /\ (OneCaller /\ Live => Small(Old, b))
      BY <1>2 DEF LeftInv
    <3> HIDE DEF b
    <3>6. OneCaller /\ Live => Small(Old', b)
      BY <3>4, <3>5, SmallSwap
    <3> QED
      BY <1>1, <2>2, <3>6, SameCalls DEF LeftTypes, b
  <2> QED
    BY <2>3, <2>4
<1> QED
  BY <1>7, <1>8

\* Only the one caller is ever inside start() or stop().
LEMMA OneClientStep ==
    ASSUME LeftTypes, OneCaller, OneClientInv, ChainInv, NEW c \in Clients, scenario' = scenario,
           ClientStep(c) \/ (c \in scenario.callers /\ (StartCheck(c) \/ StopCheck(c)))
    PROVE  /\ OneClientInv' /\ scenario.callers = {c}
           /\ \A d \in Clients \ {c} : cpc[d] = "out" /\ cpc'[d] = "out"
<1>1. scenario.callers = {c}
  BY DEF OneCaller, OneClientInv, ClientStep, StartPost, StartAssign, StopRead, StopRemove,
     StopClear, Goto
<1>2. \A d \in Clients \ {c} : cpc[d] = "out"
  BY <1>1 DEF OneClientInv
<1>3. /\ cpc \in [Clients -> {"out", "post", "assign", "read", "remove", "clear"}]
      /\ ch \in [Clients -> {Null} \cup Gens]
  BY DEF LeftTypes
<1>4. \A d \in Clients \ {c} : cpc'[d] = "out"
  BY <1>2, <1>3 DEF ClientStep, StartPost, StartAssign, StopRead, StopRemove, StopClear,
     StartCheck, StopCheck, Goto
<1>5. OneClientInv'
  <2> USE DEF Goto
  <2>1. CASE StartCheck(c)
    BY <1>1, <1>2, <1>3, <1>4, <2>1 DEF StartCheck, OneClientInv
  <2>2. CASE StartPost(c)
    BY <1>1, <1>2, <1>3, <1>4, <2>2 DEF StartPost, OneClientInv
  <2>3. CASE StartAssign(c)
    BY <1>1, <1>2, <1>3, <1>4, <2>3 DEF StartAssign, OneClientInv
  <2>4. CASE StopCheck(c)
    BY <1>1, <1>2, <1>3, <1>4, <2>4 DEF StopCheck, OneClientInv
  <2>5. CASE StopRead(c)
    BY <1>1, <1>2, <1>3, <1>4, <2>5 DEF StopRead, OneClientInv
  <2>6. CASE StopRemove(c)
    BY <1>1, <1>2, <1>3, <1>4, <2>6 DEF StopRemove, OneClientInv
  <2>7. CASE StopClear(c)
    BY <1>1, <1>2, <1>3, <1>4, <2>7 DEF StopClear, OneClientInv
  <2> QED
    BY <2>1, <2>2, <2>3, <2>4, <2>5, <2>6, <2>7 DEF ClientStep
<1> QED
  BY <1>1, <1>2, <1>4, <1>5

\* Before the first posts nothing is alive that a start() could come upon.
LEMMA NothingBefore ==
    LeftTypes /\ ChainInv /\ gens = 0 => \A m \in Running : ~Alive(m)
<1> SUFFICES ASSUME LeftTypes, ChainInv, gens = 0, NEW m \in Running PROVE ~Alive(m)
  OBVIOUS
<1>1. \A g \in Gens : pending[m][g] = 0
  BY DEF ChainInv, BeforeFirst, LeftTypes
<1>2. ~Runs(m)
  BY DEF ChainInv, BeforeFirst, Runs
<1> QED
  BY <1>1, <1>2 DEF Alive

\* A start() may come upon what the stop() before it has left.
LEMMA StartPostLeft ==
    ASSUME LeftTypes, LeftTypes', LeftInv, ChainInv, OneClientInv', OneCaller => OneCaller',
           NEW c \in Clients, scenario.callers = {c} /\ OneCaller, StartPost(c)
    PROVE  LeftInv'
<1>1. /\ cpc[c] = "post" /\ gens' = gens + 1 /\ UNCHANGED <<scenario, at, cur, h, handler>>
      /\ pending' = [m \in Monitors |-> IF m \in Running THEN [pending[m] EXCEPT ![gens'] = 1]
                                                 ELSE pending[m]]
      /\ rushed' = (rushed \/ \E m \in Running : Alive(m)) /\ Running' = Running
      /\ cpc'[c] = "assign" /\ cpc' = [cpc EXCEPT ![c] = "assign"]
  BY DEF StartPost, Goto, looping, Running, LeftTypes
<1>2. ~Live /\ Live' /\ \A d \in Clients \ {c} : cpc[d] = "out"
  <2>1. handler = Null /\ \A d \in Clients \ {c} : cpc[d] = "out"
    BY <1>1 DEF LeftInv, OneClientInv
  <2> QED
    BY <1>1, <2>1 DEF Live, Cleared, Assigning, LeftTypes
<1>3. Small(Left, Bound)
  BY <1>2 DEF LeftInv
<1>4. gens' \in Gens /\ \A m \in Running, g \in Gens \ {gens'} : pending'[m][g] = pending[m][g]
  BY <1>1 DEF LeftTypes
<1>5. Old' \subseteq Left
  <2>1. \A m \in Running, g \in Gens \ {gens'} : pending'[m][g] <= pending[m][g]
    BY <1>4 DEF LeftTypes
  <2>2. Waits(pending', Gens \ {gens'}, Running) \subseteq Waits(pending, Gens, Running)
    BY <1>4, <2>1, WaitsKept DEF LeftTypes
  <2>3. Left = Waits(pending, Gens, Running) \cup (IF UnderWay THEN {TheRun} ELSE {})
    BY LeftIs
  <2>4. Old' \subseteq Waits(pending', Gens \ {gens'}, Running)
                         \cup (IF at = "post" THEN {TheRun} ELSE {})
    BY <1>1 DEF Old, TheRun
  <2> QED
    BY <2>2, <2>3, <2>4 DEF UnderWay
<1>6. gens = 0 => \A m \in Running : ~Alive(m)
  BY NothingBefore
<1>7. rushed' => gens' >= 2
  <2>1. rushed => gens >= 2
    BY DEF LeftInv
  <2>2. gens \in Nat
    BY DEF LeftTypes
  <2>3. rushed => gens # 0
    BY <2>1, <2>2
  <2>4. gens = 0 => ~rushed'
    BY <1>1, <1>6, <2>3
  <2> QED
    BY <1>1, <2>1, <2>2, <2>4
<1>8. Small(Old', Bound' - 1)
  <2>1. CASE rushed'
    <3>1. Bound' - 1 = gens /\ Bound <= gens /\ Bound \in Int /\ gens \in Int
      BY <1>1, <1>7, <2>1 DEF Bound, LeftTypes
    <3>2. Small(Left, gens)
      BY <1>3, <3>1, FS_CardinalityType DEF Small
    <3> QED
      BY <1>5, <3>1, <3>2, SmallPart
  <2>2. CASE ~rushed'
    <3>1. \A m \in Running : ~Alive(m)
      BY <1>1, <2>2
    <3>2. Waits(pending, Gens, Running) = {}
      <4>1. \A m \in Running, g \in Gens : 1 .. pending[m][g] = {}
        BY <3>1 DEF Alive, LeftTypes
      <4> QED
        BY <4>1, WaitsHas
    <3>3. ~UnderWay
      BY <3>1 DEF UnderWay, Alive, Runs, LeftTypes
    <3>4. Old' = {}
      BY <1>5, <3>2, <3>3, LeftIs
    <3>5. Bound' - 1 = 0
      BY <2>2 DEF Bound
    <3> QED
      BY <3>4, <3>5, FS_EmptySet DEF Small
  <2> QED
    BY <2>1, <2>2
<1>9. Small(Old, Bound - 1)' = Small(Old', Bound' - 1)
  BY DEF Small
<1> QED
  BY <1>2, <1>7, <1>8, <1>9 DEF LeftInv

\* stop() takes away what waits of the handler in use: the run under way is left.
LEMMA StopRemoveLeft ==
    ASSUME LeftTypes, LeftTypes', LeftInv, OneClientInv', OneCaller => OneCaller',
           NEW c \in Clients, scenario.callers = {c} /\ OneCaller, StopRemove(c)
    PROVE  LeftInv'
<1>1. /\ cpc[c] = "remove" /\ UNCHANGED <<scenario, handler, gens, at, cur, h, ch, rushed>>
      /\ pending' = [m \in Monitors |-> [g \in Gens |-> IF g = ch[c] THEN 0 ELSE pending[m][g]]]
      /\ cpc' = [cpc EXCEPT ![c] = "clear"] /\ cpc'[c] = "clear" /\ Running' = Running
  BY DEF StopRemove, Goto, looping, Running, LeftTypes
<1>2. Live /\ ~Live' /\ ch[c] = gens
  <2>1. handler # Null /\ ch[c] = handler /\ handler = gens /\ \A d \in Clients \ {c} : cpc[d] = "out"
    BY <1>1 DEF LeftInv, OneClientInv
  <2> QED
    BY <1>1, <2>1 DEF Live, Cleared, Assigning
<1>3. Left' \subseteq Old \cup {TheRun}
  <2>1. \A m \in Running, g \in Gens :
          pending'[m][g] = 0 \/ (g \in Gens \ {gens} /\ pending'[m][g] <= pending[m][g])
    BY <1>1, <1>2 DEF LeftTypes
  <2>2. Waits(pending', Gens, Running) \subseteq Waits(pending, Gens \ {gens}, Running)
    BY <2>1, WaitsKept DEF LeftTypes
  <2>3. Left' \subseteq Waits(pending', Gens, Running) \cup {TheRun}
    BY <1>1, NextLeftIs DEF TheRun
  <2> QED
    BY <2>2, <2>3 DEF Old
<1>4. Small(Left', Bound)
  <2> DEFINE b == Bound - 1
  <2>1. b \in Int /\ b + 1 = Bound
    BY DEF Bound, LeftTypes
  <2>2. Small(Old, b)
    BY <1>2 DEF LeftInv
  <2> HIDE DEF b
  <2>3. Small(Left', b + 1)
    BY <1>3, <2>1, <2>2, SmallMore
  <2> QED
    BY <2>1, <2>3
<1>5. Bound' = Bound /\ Small(Left, Bound)' = Small(Left', Bound')
  BY <1>1 DEF Bound, Small
<1> QED
  BY <1>1, <1>2, <1>4, <1>5 DEF LeftInv

\* The other steps of the caller.
LEMMA ClientLeft ==
    ASSUME LeftTypes, LeftTypes', LeftInv, ChainInv, OneClientInv', OneCaller => OneCaller',
           NEW c \in Clients, scenario.callers = {c} /\ OneCaller,
           \A d \in Clients \ {c} : cpc[d] = "out" /\ cpc'[d] = "out",
           StartCheck(c) \/ StartAssign(c) \/ StopCheck(c) \/ StopRead(c) \/ StopClear(c)
    PROVE  LeftInv'
<1>1. UNCHANGED <<scenario, gens, pending, at, cur, h, rushed>>
  BY DEF StartCheck, StartAssign, StopCheck, StopRead, StopClear, looping
<1>2. /\ Left' = Left /\ Old' = Old /\ Bound' = Bound
      /\ Small(Left, Bound)' = Small(Left', Bound') /\ Small(Old, Bound - 1)' = Small(Old', Bound' - 1)
  BY <1>1, LeftIs, NextLeftIs DEF Old, Bound, Small, UnderWay, TheRun, Running
<1>3. Live' = Live
  <2> USE DEF Live, Cleared, Assigning, Goto, LeftTypes
  <2>1. CASE StartCheck(c)
    BY <2>1 DEF StartCheck
  <2>2. CASE StopCheck(c)
    BY <2>2 DEF StopCheck
  <2>3. CASE StopRead(c)
    BY <2>3 DEF StopRead
  <2>4. CASE StartAssign(c)
    <3>1. handler' = gens /\ gens # 0
      BY <2>4 DEF StartAssign, LeftInv, OneClientInv, ChainInv, BeforeFirst
    <3> QED
      BY <2>4, <3>1 DEF StartAssign
  <2>5. CASE StopClear(c)
    BY <2>5 DEF StopClear
  <2> QED
    BY <2>1, <2>2, <2>3, <2>4, <2>5
<1> QED
  BY <1>1, <1>2, <1>3 DEF LeftInv

LEMMA LeftStep == LeftTypes /\ LeftTypes' /\ ChainInv /\ LeftInv /\ [Next]_vars => LeftInv'
<1> SUFFICES ASSUME LeftTypes, LeftTypes', ChainInv, LeftInv, [Next]_vars PROVE LeftInv'
  OBVIOUS
<1>0. scenario' = scenario /\ OneCaller' = OneCaller
  <2>1. scenario' = scenario
    BY DEF Next, NewCall, ClientStep, LooperStep, StartCheck, StopCheck, StartPost, StartAssign,
       StopRead, StopRemove, StopClear, AddListener, DelListener, DelAllListeners, ChangeList,
       ListKeeps, MemInfoGet, DispatchAny, Dispatch, Run, ReportOom, ReadHandler, PostAgain, vars
  <2> QED
    BY <2>1 DEF OneCaller
<1>1. ASSUME ClientsKept, UNCHANGED <<pending, at, cur, h>> PROVE LeftInv'
  <2>1. Left' = Left /\ Old' = Old
    BY <1>0, <1>1, LeftIs, NextLeftIs DEF ClientsKept, Old, UnderWay, TheRun, Running
  <2> QED
    BY <1>1, <2>1, SameCalls DEF LeftTypes
<1>2. CASE UNCHANGED vars
  BY <1>1, <1>2 DEF vars, looping, clients, ClientsKept
<1>3. ASSUME NEW new, ChangeList(new) PROVE LeftInv'
  BY <1>1, <1>3 DEF ChangeList, ListKeeps, ClientsKept
<1>4. CASE MemInfoGet
  BY <1>1, <1>4 DEF MemInfoGet, looping, ClientsKept
<1>5. ASSUME NEW m \in Running, Run(m) PROVE LeftInv'
  <2>1. at' \in {"report", "repost"}
    BY <1>5 DEF Run
  <2> QED
    BY <1>5, <2>1, RunLeft DEF Run, clients, ClientsKept
<1>6. CASE ReportOom
  BY <1>6, RunLeft DEF ReportOom, clients, ClientsKept
<1>7. CASE ReadHandler
  BY <1>7, RunLeft DEF ReadHandler, clients, ClientsKept
<1>8. ASSUME NEW c \in Clients,
             ClientStep(c) \/ (c \in scenario.callers /\ (StartCheck(c) \/ StopCheck(c)))
      PROVE  LeftInv'
  <2>1. CASE OneCaller
    <3>1. /\ OneClientInv' /\ scenario.callers = {c}
          /\ \A d \in Clients \ {c} : cpc[d] = "out" /\ cpc'[d] = "out"
      BY <1>0, <1>8, <2>1, OneClientStep DEF LeftInv
    <3> QED
      BY <1>0, <1>8, <2>1, <3>1, StartPostLeft, StopRemoveLeft, ClientLeft DEF ClientStep
  <2>2. CASE ~OneCaller
    <3>1. rushed' => gens' >= 2
      <4>1. CASE StartPost(c)
        <5>1. gens' = gens + 1 /\ rushed' = (rushed \/ \E m \in Running : Alive(m))
          BY <4>1 DEF StartPost
        <5>2. gens = 0 => \A m \in Running : ~Alive(m)
          BY NothingBefore
        <5>3. rushed => gens >= 2
          BY DEF LeftInv
        <5>4. gens \in Nat
          BY DEF LeftTypes
        <5>5. rushed => gens # 0
          BY <5>3, <5>4
        <5>6. gens = 0 => ~rushed'
          BY <5>1, <5>2, <5>5
        <5> QED
          BY <5>1, <5>3, <5>4, <5>6
      <4>2. CASE ~StartPost(c)
        BY <1>8, <4>2 DEF LeftInv, ClientStep, StartAssign, StopRead, StopRemove, StopClear,
           StartCheck, StopCheck
      <4> QED
        BY <4>1, <4>2
    <3> QED
      BY <1>0, <2>2, <3>1 DEF LeftInv
  <2> QED
    BY <2>1, <2>2
<1>9. scenario.callers \subseteq Clients
  BY DEF LeftTypes
<1> QED
  BY <1>2, <1>3, <1>4, <1>5, <1>6, <1>7, <1>8, <1>9, DispatchLeft, PostLeft
     DEF Next, NewCall, LooperStep, AddListener, DelListener, DelAllListeners

-----------------------------------------------------------------------------
(* The theorems about them.                                                *)

\* The types of the variables; a count that is compared with its limit for equality is
\* always below it.
THEOREM Types == Spec => []TypeOK
<1>1. IInv /\ IInv' /\ TypeOK /\ [Next]_vars => TypeOK'
  BY TypesStep
<1> QED
  BY InitTypes, Invariant, <1>1, PTL DEF Spec

\* What is alive of each monitor, before, between and after the steps of start() and
\* stop().
THEOREM Chains == Spec => []ChainInv
<1>1. TypeOK /\ TypeOK' /\ ChainInv /\ [Next]_vars => ChainInv'
  BY ChainStep
<1> QED
  BY InitChains, Types, <1>1, PTL DEF Spec

\* However many threads call start() and stop(), and however they overlap: a monitor
\* runs once per period as long as no start() finds something of it left over.
THEOREM OneChainEach == Spec => []OneChainUnlessRushed
<1>1. ChainInv => OneChainUnlessRushed
  BY DEF ChainInv
<1> QED
  BY Chains, <1>1, PTL

\* What one caller's start() and stop() leave, at every point of them.
THEOREM Leftovers == Spec => []LeftInv
<1>1. TypeOK => LeftTypes
  BY TypesLeft
<1>2. LeftTypes /\ LeftTypes' /\ ChainInv /\ LeftInv /\ [Next]_vars => LeftInv'
  BY LeftStep
<1> QED
  BY InitLeft, Types, Chains, <1>1, <1>2, PTL DEF Spec

\* After any stop() of the one thread that calls, the first as well as the last: of all
\* monitors the one run that was under way is left, or one for each handler made where a
\* start() has come upon such a leftover.  The same of the first handler, however many
\* threads call.
THEOREM OneRunLeft == Spec => []StopLeavesOneRun
<1>1. TypeOK /\ ChainInv /\ LeftInv => StopLeavesOneRun
  <2> SUFFICES ASSUME TypeOK, ChainInv, LeftInv, OneCaller \/ gens <= 1, handler = Null,
                      \A c \in Clients : cpc[c] = "out"
               PROVE  Cardinality(Left) <= IF rushed THEN gens ELSE 1
    BY DEF StopLeavesOneRun
  <2>1. LeftTypes
    BY TypesLeft
  <2>2. CASE OneCaller
    <3>1. ~Live
      BY DEF Live, Cleared, Assigning
    <3> QED
      BY <2>2, <3>1 DEF LeftInv, Small, Bound
  <2>3. CASE gens <= 1
    <3>1. ~rushed /\ gens \in {0, 1}
      <4>1. gens \in Nat /\ (rushed => gens >= 2)
        BY <2>1 DEF LeftTypes, LeftInv
      <4> QED
        BY <2>3, <4>1
    <3>2. OneAlive
      <4>1. CASE gens = 0
        BY <2>1, <4>1, NothingBefore DEF OneAlive
      <4>2. CASE gens = 1
        BY <4>2 DEF ChainInv, StoppedInv, Assigning
      <4> QED
        BY <3>1, <4>1, <4>2
    <3>3. OneChain
      BY <3>1 DEF ChainInv, OneChainUnlessRushed
    <3>4. \A x, y \in Left : x = y
      <4> SUFFICES ASSUME NEW x \in Left, NEW y \in Left PROVE x = y
        OBVIOUS
      <4> DEFINE Message(z, m, g) == pending[m][g] > 0 /\ z = <<m, g, 1>>
                 TheGoing(z, m)   == Runs(m) /\ z = <<m, Null, 0>>
      <4>1. ASSUME NEW z \in Left
            PROVE  \E m \in Running :
                     Alive(m) /\ (TheGoing(z, m) \/ \E g \in Gens : Message(z, m, g))
        <5>1. CASE z \in Going
          BY <5>1 DEF Going, Alive
        <5>2. CASE z \in Waiting
          <6>1. PICK m \in Running, g \in Gens : \E n \in 1 .. pending[m][g] : z = <<m, g, n>>
            BY <5>2, WaitsHas DEF Waiting, Waits
          <6>2. pending[m][g] \in Nat
            BY <2>1 DEF LeftTypes
          <6>3. pending[m][g] > 0
            BY <6>1, <6>2
          <6>4. pending[m][g] = 1
            BY <3>3, <6>3 DEF OneChain
          <6> QED
            BY <6>1, <6>3, <6>4 DEF Alive
        <5> QED
          BY <4>1, <5>1, <5>2 DEF Left
      <4>2. PICK m \in Running :
              Alive(m) /\ (TheGoing(x, m) \/ \E g \in Gens : Message(x, m, g))
        BY <4>1
      <4>3. PICK k \in Running :
              Alive(k) /\ (TheGoing(y, k) \/ \E g \in Gens : Message(y, k, g))
        BY <4>1
      <4>4. m = k
        BY <3>2, <4>2, <4>3 DEF OneAlive
      <4>5. /\ Runs(m) => \A g \in Gens : ~(pending[m][g] > 0)
            /\ \A g, f \in Gens : pending[m][g] > 0 /\ pending[m][f] > 0 => g = f
        BY <3>3 DEF OneChain
      <4> QED
        BY <4>2, <4>3, <4>4, <4>5
    <3>5. Cardinality(Left) <= 1
      <4>1. CASE Left = {}
        BY <4>1, FS_EmptySet
      <4>2. CASE Left # {}
        <5>1. PICK x : x \in Left
          BY <4>2
        <5>2. Left = {x}
          BY <3>4, <5>1
        <5>3. Cardinality({x}) = 1
          BY FS_Singleton
        <5>4. Cardinality(Left) = 1
          BY <5>2, <5>3
        <5> QED
          BY <5>4
      <4> QED
        BY <4>1, <4>2
    <3> QED
      BY <3>1, <3>5
  <2> QED
    BY <2>2, <2>3
<1> QED
  BY Types, Chains, Leftovers, <1>1, PTL

\* On every device, under every configuration, and whatever the monitor has read before: a
\* heap that is all but full is reported, or counts towards the readings that are.
THEOREM OverThresholdNoticed == Spec => HeapOverThresholdNoticed
<1> DEFINE A == at = "run" /\ at' # "run" /\ cur = "memory" =>
          /\ last'[cur] > 98 \/ (Config.strict /\ last'[cur] > Config.heap)
               => verdict'[cur] = "report"
          /\ ~Config.strict /\ MaxHeap >= 192
             /\ last'[cur] > 96 /\ last'[cur] >= last[cur] - JAVA_HEAP_RATIO_FALL_BACK_GAP
               => verdict'[cur] = "report" \/ count'[cur] = count[cur] + 1
<1>1. TypeOK /\ [Next]_vars => [A]_vars
  <2> SUFFICES ASSUME TypeOK, Next, at = "run", at' # "run", cur = "memory" PROVE A
    OBVIOUS
  <2> DEFINE m == "memory"
             Fallen == last'[m] < last[m] - JAVA_HEAP_RATIO_FALL_BACK_GAP
  <2>1. Run(m) /\ m \in Monitors
    <3>1. PICK k \in Running : Run(k)
      BY DEF Next, NewCall, ClientStep, LooperStep, StartCheck, StopCheck, StartPost, StartAssign,
         StopRead, StopRemove, StopClear, AddListener, DelListener, DelAllListeners, ChangeList,
         ListKeeps, MemInfoGet, DispatchAny, Dispatch, ReportOom, ReadHandler, PostAgain, looping
    <3> QED
      BY <3>1 DEF Run, Monitors
  <2>2. PICK mem \in scenario.readings[m] :
          LET v == Verdict(m, mem) IN
          /\ count' = [count EXCEPT ![m] = CountAfter(m, v)]
          /\ last' = [last EXCEPT ![m] = Level(m, mem)]
          /\ verdict' = [verdict EXCEPT ![m] =
               IF v.type # "none" THEN "report" ELSE IF v.confirming THEN "confirming" ELSE "calm"]
    BY <2>1 DEF Run
  <2> DEFINE v == Verdict(m, mem)
  <2>3. last'[m] = HeapUsedRatio(mem.heap) /\ last'[m] \in Nat /\ last[m] \in Nat
    BY <2>1, <2>2, CountBelowLimit DEF Level, TypeOK
  <2>4. v = MemoryVerdict(mem, lastRecord, last[m], count[m])
    BY DEF Verdict
  <2>5. /\ v.type # "none" => verdict'[m] = "report"
        /\ v.confirming => count'[m] = count[m] + 1
    BY <2>1, <2>2 DEF TypeOK, CountAfter
  <2>6. /\ JavaHeapOverflowThreshold \in Int
        /\ Config.strict => JavaHeapOverflowThreshold = Config.heap
        /\ ~Config.strict /\ MaxHeap >= 192 => JavaHeapOverflowThreshold <= 96
    BY ConfigAssumption, MaxHeapAssumption
       DEF JavaHeapOverflowThreshold, RefinedProcJavaHeapUsedRatioThreshold
  <2> HIDE DEF m, v
  <2>7. last'[m] > 98 => v.type # "none"
    BY <2>3, <2>4 DEF MemoryVerdict, Report, JAVA_HEAP_FORCE_OOM_RATIO_THRESHOLD
  <2>8. Config.strict /\ last'[m] > Config.heap => v.type # "none"
    BY <2>3, <2>4, <2>6 DEF MemoryVerdict, Over, Report
  <2>9. ASSUME ~Config.strict, MaxHeap >= 192, last'[m] > 96, ~Fallen
        PROVE  v.type # "none" \/ v.confirming
    <3>1. HeapUsedRatio(mem.heap) > JavaHeapOverflowThreshold
      BY <2>3, <2>6, <2>9
    <3>2. ~(HeapUsedRatio(mem.heap) < last[m] - JAVA_HEAP_RATIO_FALL_BACK_GAP)
      BY <2>3, <2>9
    <3> QED
      BY <2>4, <2>9, <3>1, <3>2 DEF MemoryVerdict, Over, Report, Confirming
  <2>10. last'[m] >= last[m] - JAVA_HEAP_RATIO_FALL_BACK_GAP => ~Fallen
    BY <2>3 DEF JAVA_HEAP_RATIO_FALL_BACK_GAP
  <2> QED
    BY <2>5, <2>7, <2>8, <2>9, <2>10 DEF m
<1>2. HeapOverThresholdNoticed <=> [][A]_vars
  BY DEF HeapOverThresholdNoticed
<1> QED
  BY Types, <1>1, <1>2, PTL DEF Spec

-----------------------------------------------------------------------------
(***************************************************************************)
(* The list of threads that the report of too many threads comes with      *)
(* (ThreadInfo): a thread of the runtime is told to be one.                *)
(***************************************************************************)

Infos == {JvmInfo(t) : t \in Jvm}

\* The lists have their shape: no thread of the runtime, and no task, is in them twice.
ListsInv ==
    /\ pc \in {"snapshot", "list", "read", "done"}
    /\ running \subseteq Threads /\ IsFiniteSet(running)
    /\ jvmThreads \in Seq(Infos) /\ Distinct(jvmThreads)
    /\ left \subseteq DOMAIN jvmThreads
    /\ tasks \in Seq(Threads)
    /\ \A i, j \in DOMAIN tasks : i < j => tasks[i] < tasks[j]
    /\ pc = "snapshot" => jvmThreads = <<>> /\ tasks = <<>>

\* What was read of a task is its name or that it has ended.
NamesInv ==
    /\ comms \in Seq({Comm(t) : t \in Threads} \cup {Failed})
    /\ Len(comms) <= Len(tasks)
    /\ \A i \in DOMAIN comms : comms[i] \in {Comm(tasks[i]), Failed}
    /\ pc \in {"snapshot", "list"} => comms = <<>>

\* The entries of the tasks gone through.
Out == IF pc = "done" THEN [i \in DOMAIN tasks |-> Told(i)] ELSE allThreads

\* An entry that is taken out was given to a task whose name passes for its own; a
\* task is told to be native when all entries its name passes for had been taken.
MatchInv ==
    /\ allThreads \in Seq(Infos \cup {NativeInfo(t, c) : t \in Threads,
                                      c \in {Comm(u) : u \in Threads} \cup {Failed}})
    /\ pc = "done" => Len(allThreads) >= Len(tasks)
    /\ pc # "done" => Len(allThreads) <= Len(tasks)
    /\ pc = "done" \/ allThreads # <<>> => Len(comms) = Len(tasks)
    /\ \A i \in DOMAIN Out, k \in DOMAIN jvmThreads :
         Out[i] = jvmThreads[k] => SameName(jvmThreads[k].name, comms[i])
    /\ \A k \in DOMAIN jvmThreads \ left : \E j \in DOMAIN Out : Out[j] = jvmThreads[k]
    /\ \A i \in DOMAIN Out, k \in DOMAIN jvmThreads :
         Out[i].isNative /\ SameName(jvmThreads[k].name, comms[i]) =>
             \E j \in 1 .. i - 1 : Out[j] = jvmThreads[k]

ThreadsInv == ListsInv /\ NamesInv /\ MatchInv

-----------------------------------------------------------------------------
\* A thread's name in the kernel passes for its name, cut or not.
LEMMA OwnName ==
  ASSUME NEW t \in Threads, t # Main
  PROVE  SameName(NameOf[t], Comm(t))
<1> DEFINE name == NameOf[t]
           cut  == Len(name) - COMM_LEN
<1>1. name \in Seq(STRING) /\ COMM_LEN \in Nat /\ Len(name) \in Nat
  BY NamesAssumption
<1> HIDE DEF name
<1>2. CASE Len(name) <= COMM_LEN
  BY <1>2 DEF SameName, Comm, name
<1>3. CASE Len(name) > COMM_LEN
  <2>1. ASSUME NEW i \in 1 .. cut + 1
        PROVE  LET sub == SubSeq(name, i, i + COMM_LEN - 1)
               IN Len(sub) = COMM_LEN /\ ContainsText(name, sub)
    <3> DEFINE sub == SubSeq(name, i, i + COMM_LEN - 1)
    <3>1. Len(sub) = COMM_LEN
      BY <1>1, <1>3
    <3>2. i \in 1 .. Len(name) - Len(sub) + 1 /\ i + Len(sub) - 1 = i + COMM_LEN - 1
      BY <1>1, <3>1
    <3> HIDE DEF sub
    <3>3. SubSeq(name, i, i + Len(sub) - 1) = sub
      BY <3>2 DEF sub
    <3> QED
      BY <3>1, <3>2, <3>3 DEF ContainsText, sub
  <2>2. /\ cut + 1 \in 1 .. cut + 1 /\ cut + 1 + COMM_LEN - 1 = Len(name)
        /\ 1 \in 1 .. cut + 1 /\ 1 + COMM_LEN - 1 = COMM_LEN
    BY <1>1, <1>3
  <2> DEFINE end == SubSeq(name, cut + 1, Len(name))
             beginning == SubSeq(name, 1, COMM_LEN)
  <2>3. Len(end) = COMM_LEN /\ ContainsText(name, end)
    BY <2>1, <2>2
  <2>4. Len(beginning) = COMM_LEN /\ ContainsText(name, beginning)
    BY <2>1, <2>2
  <2>5. Comm(t) = end \/ Comm(t) = beginning
    <3>1. ~(Len(name) <= COMM_LEN)
      BY <1>1, <1>3
    <3> QED
      BY <3>1 DEF Comm, name
  <2> HIDE DEF end, beginning
  <2> QED
    BY <2>3, <2>4, <2>5 DEF SameName, name
<1> QED
  BY <1>1, <1>2, <1>3

LEMMA InitThreads == TInit => ThreadsInv
<1> SUFFICES ASSUME TInit PROVE ThreadsInv
  OBVIOUS
<1> USE DEF TInit
<1>1. ListsInv
  <2>1. running \subseteq Threads /\ IsFiniteSet(running)
    BY MainAssumption, ThreadsAssumption, FS_Singleton
  <2> QED
    BY <2>1 DEF ListsInv, Distinct
<1>2. NamesInv
  BY DEF NamesInv
<1>3. MatchInv
  BY DEF MatchInv, Out
<1> QED
  BY <1>1, <1>2, <1>3 DEF ThreadsInv

\* The other threads.
LEMMA OthersStep ==
  ASSUME ThreadsInv, UNCHANGED <<pc, lists>>, running' \subseteq Threads, IsFiniteSet(running')
  PROVE  ThreadsInv'
<1> USE DEF lists
<1>1. ListsInv'
  BY DEF ThreadsInv, ListsInv, Distinct
<1>2. NamesInv'
  BY DEF ThreadsInv, NamesInv
<1>3. MatchInv'
  <2>1. Out' = Out
    BY DEF Out, Told
  <2> QED
    BY <2>1 DEF ThreadsInv, MatchInv
<1> QED
  BY <1>1, <1>2, <1>3 DEF ThreadsInv

LEMMA SnapshotStep == ASSUME ThreadsInv, GetJvmThreadsInfo PROVE ThreadsInv'
<1> USE DEF GetJvmThreadsInfo, others
<1>0. ListsInv /\ NamesInv /\ MatchInv
  BY DEF ThreadsInv
<1> DEFINE S == running \cap Jvm
           n == Cardinality(S)
<1>1. n \in Nat
  BY <1>0, FS_Subset, FS_CardinalityType DEF ListsInv
<1>2. PICK order \in SetToSeqs(S) : jvmThreads' = [i \in DOMAIN order |-> JvmInfo(order[i])]
  OBVIOUS
<1>3. order \in [1 .. n -> S] /\ \A i, j \in 1 .. n : i # j => order[i] # order[j]
  BY <1>2 DEF SetToSeqs
<1> HIDE DEF n
<1>4. jvmThreads' = [i \in 1 .. n |-> JvmInfo(order[i])]
  BY <1>2, <1>3
<1>5. \A i \in 1 .. n : JvmInfo(order[i]) \in Infos /\ JvmInfo(order[i]).jvmId = order[i]
  BY <1>3 DEF Infos, JvmInfo
<1>6. jvmThreads' \in Seq(Infos) /\ Len(jvmThreads') = n /\ Distinct(jvmThreads')
  <2>1. jvmThreads' \in Seq(Infos) /\ Len(jvmThreads') = n
    BY <1>1, <1>4, <1>5
  <2>2. ASSUME NEW i \in 1 .. n, NEW j \in 1 .. n, jvmThreads'[i] = jvmThreads'[j] PROVE i = j
    BY <1>3, <1>4, <1>5, <2>2
  <2> QED
    BY <2>1, <2>2 DEF Distinct
<1>7. ListsInv'
  BY <1>0, <1>6 DEF ListsInv
<1>8. NamesInv'
  BY <1>0 DEF NamesInv
<1>9. MatchInv'
  BY <1>0, <1>8 DEF MatchInv, NamesInv, ListsInv, Out
<1> QED
  BY <1>7, <1>8, <1>9 DEF ThreadsInv

\* The tasks' numbers go up: the next is greater than all before it.
LEMMA ListTaskStep == ASSUME ThreadsInv, ListTask PROVE ThreadsInv'
<1> DEFINE ahead == {t \in running : \A i \in DOMAIN tasks : tasks[i] < t}
<1>0. ListsInv /\ NamesInv /\ MatchInv
  BY DEF ThreadsInv
<1>1. /\ pc = "list" /\ UNCHANGED <<others, jvmThreads, left, comms, allThreads>>
      /\ ahead = {} => pc' = "read" /\ UNCHANGED tasks
      /\ ahead # {} => tasks' = Append(tasks, Min(ahead)) /\ UNCHANGED pc
  BY DEF ListTask
<1>2. comms = <<>> /\ allThreads = <<>>
  <2>1. comms = <<>>
    BY <1>0, <1>1 DEF NamesInv
  <2>2. ASSUME allThreads # <<>> PROVE FALSE
    <3>1. Len(tasks) = 0 /\ Len(allThreads) <= Len(tasks)
      BY <1>0, <1>1, <2>1, <2>2 DEF MatchInv
    <3> QED
      BY <1>0, <3>1, <2>2 DEF MatchInv
  <2> QED
    BY <2>1, <2>2
<1>3. ListsInv'
  <2>1. CASE ahead = {}
    BY <1>0, <1>1, <2>1 DEF ListsInv, others, Distinct
  <2>2. CASE ahead # {}
    <3>1. Min(ahead) \in ahead
      <4>1. ahead \subseteq Nat
        BY <1>0, ThreadsAssumption DEF ListsInv
      <4> HIDE DEF ahead
      <4> QED
        BY <2>2, <4>1, LeastOf
    <3>2. PICK t \in running : tasks' = Append(tasks, t) /\ \A i \in DOMAIN tasks : tasks[i] < t
      BY <1>1, <2>2, <3>1
    <3>3. tasks' \in Seq(Threads) /\ \A i, j \in DOMAIN tasks' : i < j => tasks'[i] < tasks'[j]
      BY <1>0, <3>2 DEF ListsInv
    <3> QED
      BY <1>0, <1>1, <2>2, <3>3 DEF ListsInv, others, Distinct
  <2> QED
    BY <2>1, <2>2
<1>4. NamesInv'
  <2>1. comms' = <<>> /\ Len(tasks') \in Nat
    BY <1>1, <1>2, <1>3 DEF ListsInv
  <2> QED
    BY <2>1 DEF NamesInv
<1>5. MatchInv'
  <2>1. pc' # "done" /\ Out = <<>> /\ Out' = <<>>
    BY <1>1, <1>2 DEF Out
  <2>2. Len(allThreads') <= Len(tasks') /\ allThreads' = <<>>
    BY <1>1, <1>2, <1>3 DEF ListsInv
  <2> QED
    BY <1>0, <1>1, <2>1, <2>2 DEF MatchInv
<1> QED
  BY <1>3, <1>4, <1>5 DEF ThreadsInv

LEMMA ReadCommStep == ASSUME ThreadsInv, ReadComm PROVE ThreadsInv'
<1> DEFINE t == tasks[Len(comms) + 1]
           Texts == {Comm(u) : u \in Threads} \cup {Failed}
<1>0. ListsInv /\ NamesInv /\ MatchInv
  BY DEF ThreadsInv
<1>1. /\ pc = "read" /\ Len(comms) < Len(tasks)
      /\ UNCHANGED <<others, pc, jvmThreads, left, tasks, allThreads>>
  BY DEF ReadComm
<1>2. PICK text \in {Comm(t), Failed} : comms' = Append(comms, text)
  BY DEF ReadComm
<1>3. ListsInv'
  BY <1>0, <1>1 DEF ListsInv, others, Distinct
<1>4. NamesInv'
  <2>1. comms \in Seq(Texts) /\ tasks \in Seq(Threads)
    BY <1>0 DEF NamesInv, ListsInv
  <2>2. t \in Threads /\ text \in Texts
    BY <1>1, <1>2, <2>1
  <2>3. comms' \in Seq(Texts) /\ Len(comms') = Len(comms) + 1 /\ Len(comms) \in Nat
    BY <1>2, <2>1, <2>2
  <2>4. \A i \in DOMAIN comms' : comms'[i] \in {Comm(tasks[i]), Failed}
    <3>1. \A i \in DOMAIN comms' : (i \in DOMAIN comms /\ comms'[i] = comms[i])
                                   \/ (i = Len(comms) + 1 /\ comms'[i] = text)
      BY <1>2, <2>1, <2>2
    <3> QED
      BY <1>0, <1>2, <3>1 DEF NamesInv
  <2> QED
    BY <1>1, <2>1, <2>3, <2>4 DEF NamesInv
<1>5. MatchInv'
  <2>1. allThreads = <<>>
    BY <1>0, <1>1 DEF MatchInv
  <2>2. Out = <<>> /\ Out' = <<>> /\ pc' # "done"
    BY <1>1, <2>1 DEF Out
  <2> QED
    BY <1>0, <1>1, <2>1, <2>2 DEF MatchInv
<1> QED
  BY <1>3, <1>4, <1>5 DEF ThreadsInv

\* One task is matched: an entry more, and at most one place fewer.
LEMMA MatchTaskStep == ASSUME ThreadsInv, MatchTask PROVE ThreadsInv'
<1> DEFINE n    == Len(allThreads) + 1
           hits == {k \in left : SameName(jvmThreads[k].name, comms[n])}
           Texts == {Comm(u) : u \in Threads} \cup {Failed}
           Natives == {NativeInfo(t, c) : t \in Threads, c \in Texts}
<1>0. ListsInv /\ NamesInv /\ MatchInv
  BY DEF ThreadsInv
<1>1. /\ pc = "read" /\ Len(comms) = Len(tasks) /\ n <= Len(tasks)
      /\ UNCHANGED <<others, pc, jvmThreads, tasks, comms>>
      /\ hits = {} => allThreads' = Append(allThreads, NativeInfo(tasks[n], comms[n])) /\ left' = left
      /\ hits # {} => allThreads' = Append(allThreads, jvmThreads[Min(hits)])
                      /\ left' = left \ {Min(hits)}
  BY DEF MatchTask
<1>2. /\ allThreads \in Seq(Infos \cup Natives) /\ comms \in Seq(Texts)
      /\ tasks \in Seq(Threads) /\ jvmThreads \in Seq(Infos) /\ Distinct(jvmThreads)
      /\ left \subseteq DOMAIN jvmThreads
  BY <1>0 DEF MatchInv, NamesInv, ListsInv
<1>3. Len(allThreads) \in Nat /\ n \in 1 .. Len(tasks) /\ n \in DOMAIN comms
  BY <1>1, <1>2
<1>4. ListsInv'
  BY <1>0, <1>1 DEF ListsInv, others, Distinct
<1>5. NamesInv'
  BY <1>0, <1>1 DEF NamesInv
<1>6. Out = allThreads /\ Out' = allThreads' /\ pc' # "done"
  BY <1>1 DEF Out
<1>7. MatchInv'
  <2>1. \A k \in DOMAIN jvmThreads : ~jvmThreads[k].isNative
    <3>1. \A info \in Infos : ~info.isNative
      BY DEF Infos, JvmInfo
    <3> QED
      BY <1>2, <3>1
  <2>2. CASE hits = {}
    <3> DEFINE new == NativeInfo(tasks[n], comms[n])
    <3>1. new \in Natives /\ new.isNative
      <4>1. tasks[n] \in Threads /\ comms[n] \in Texts
        BY <1>2, <1>3
      <4>2. new.isNative
        BY DEF NativeInfo
      <4> QED
        BY <4>1, <4>2
    <3> HIDE DEF new
    <3>2. allThreads' = Append(allThreads, new)
      BY <1>1, <2>2 DEF new
    <3>3. /\ allThreads' \in Seq(Infos \cup Natives) /\ Len(allThreads') = n /\ allThreads'[n] = new
          /\ \A i \in 1 .. n - 1 : allThreads'[i] = allThreads[i] /\ i \in DOMAIN allThreads
          /\ DOMAIN allThreads' = 1 .. n /\ DOMAIN allThreads = 1 .. n - 1
      BY <1>2, <3>1, <3>2
    <3>4. \A i \in DOMAIN Out', k \in DOMAIN jvmThreads :
            Out'[i] = jvmThreads[k] => SameName(jvmThreads[k].name, comms[i])
      BY <1>0, <1>3, <1>6, <2>1, <3>1, <3>3 DEF MatchInv
    <3>5. \A k \in DOMAIN jvmThreads \ left : \E j \in DOMAIN Out' : Out'[j] = jvmThreads[k]
      BY <1>0, <1>3, <1>6, <3>3 DEF MatchInv
    <3>6. ASSUME NEW i \in DOMAIN Out', NEW k \in DOMAIN jvmThreads,
                 Out'[i].isNative, SameName(jvmThreads[k].name, comms[i])
          PROVE  \E j \in 1 .. i - 1 : Out'[j] = jvmThreads[k]
      <4>1. CASE i = n
        <5>1. k \notin left
          BY <2>2, <3>6, <4>1
        <5> QED
          BY <1>0, <1>6, <3>3, <4>1, <5>1 DEF MatchInv
      <4>2. CASE i \in 1 .. n - 1
        <5>1. PICK j \in 1 .. i - 1 : Out[j] = jvmThreads[k]
          BY <1>0, <1>6, <3>3, <3>6, <4>2 DEF MatchInv
        <5> QED
          BY <1>3, <1>6, <3>3, <4>2, <5>1
      <4> QED
        BY <1>3, <1>6, <3>3, <4>1, <4>2
    <3> HIDE DEF Natives, Texts
    <3> QED
      BY <1>1, <1>6, <2>2, <3>3, <3>4, <3>5, <3>6 DEF MatchInv, Natives, Texts
  <2>3. CASE hits # {}
    <3> DEFINE first == Min(hits)
    <3>1. first \in hits
      <4>1. hits \subseteq Nat
        BY <1>2
      <4> HIDE DEF hits
      <4> QED
        BY <2>3, <4>1, LeastOf
    <3> HIDE DEF first
    <3>2. first \in DOMAIN jvmThreads /\ first \in left /\ SameName(jvmThreads[first].name, comms[n])
      BY <1>2, <3>1
    <3>3. allThreads' = Append(allThreads, jvmThreads[first]) /\ left' = left \ {first}
      BY <1>1, <2>3 DEF first
    <3>4. /\ allThreads' \in Seq(Infos \cup Natives) /\ Len(allThreads') = n
          /\ allThreads'[n] = jvmThreads[first]
          /\ \A i \in 1 .. n - 1 : allThreads'[i] = allThreads[i] /\ i \in DOMAIN allThreads
          /\ DOMAIN allThreads' = 1 .. n /\ DOMAIN allThreads = 1 .. n - 1
      BY <1>2, <3>2, <3>3
    <3>5. \A i \in DOMAIN Out', k \in DOMAIN jvmThreads :
            Out'[i] = jvmThreads[k] => SameName(jvmThreads[k].name, comms[i])
      <4>1. \A k \in DOMAIN jvmThreads : jvmThreads[first] = jvmThreads[k] => k = first
        <5>1. DOMAIN jvmThreads = 1 .. Len(jvmThreads) /\ Distinct(jvmThreads)
          BY <1>2
        <5> QED
          BY <3>2, <5>1 DEF Distinct
      <4> QED
        BY <1>0, <1>3, <1>6, <3>2, <3>4, <4>1 DEF MatchInv
    <3>6. \A k \in DOMAIN jvmThreads \ left' : \E j \in DOMAIN Out' : Out'[j] = jvmThreads[k]
      BY <1>0, <1>3, <1>6, <3>3, <3>4 DEF MatchInv
    <3>7. ASSUME NEW i \in DOMAIN Out', NEW k \in DOMAIN jvmThreads,
                 Out'[i].isNative, SameName(jvmThreads[k].name, comms[i])
          PROVE  \E j \in 1 .. i - 1 : Out'[j] = jvmThreads[k]
      <4>1. i \in 1 .. n - 1
        BY <1>3, <1>6, <2>1, <3>2, <3>4, <3>7
      <4>2. PICK j \in 1 .. i - 1 : Out[j] = jvmThreads[k]
        BY <1>0, <1>6, <3>4, <3>7, <4>1 DEF MatchInv
      <4> QED
        BY <1>3, <1>6, <3>4, <4>1, <4>2
    <3> HIDE DEF Natives, Texts
    <3> QED
      BY <1>1, <1>6, <2>3, <3>4, <3>5, <3>6, <3>7 DEF MatchInv, Natives, Texts
  <2> QED
    BY <2>2, <2>3
<1> QED
  BY <1>4, <1>5, <1>7 DEF ThreadsInv

\* What goes to the front moves the entries of the tasks, and Told with them.
LEMMA AddMainStep == ASSUME ThreadsInv, AddMain PROVE ThreadsInv'
<1> DEFINE mains == {k \in left : jvmThreads[k].name = MainName}
           Texts == {Comm(u) : u \in Threads} \cup {Failed}
           Natives == {NativeInfo(t, c) : t \in Threads, c \in Texts}
<1>0. ListsInv /\ NamesInv /\ MatchInv
  BY DEF ThreadsInv
<1>1. /\ pc = "read" /\ Len(allThreads) = Len(tasks) /\ pc' = "done"
      /\ UNCHANGED <<others, jvmThreads, left, tasks, comms>>
      /\ mains = {} => allThreads' = allThreads
      /\ mains # {} => allThreads' = <<jvmThreads[Min(mains)]>> \o allThreads
  BY DEF AddMain
<1>2. /\ allThreads \in Seq(Infos \cup Natives)
      /\ tasks \in Seq(Threads) /\ jvmThreads \in Seq(Infos) /\ left \subseteq DOMAIN jvmThreads
  BY <1>0 DEF MatchInv, ListsInv
<1>3. ListsInv'
  BY <1>0, <1>1 DEF ListsInv, others, Distinct
<1>4. NamesInv'
  BY <1>0, <1>1 DEF NamesInv
<1>5. Len(comms) = Len(tasks)
  <2>1. Len(tasks) = 0 => Len(comms) = 0
    BY <1>0, <1>2 DEF NamesInv
  <2>2. Len(tasks) # 0 => allThreads # <<>>
    BY <1>1
  <2> QED
    BY <1>0, <2>1, <2>2 DEF MatchInv
<1>6. /\ allThreads' \in Seq(Infos \cup Natives) /\ Len(allThreads') >= Len(tasks)
      /\ \A i \in 1 .. Len(tasks) : allThreads'[i + Len(allThreads') - Len(tasks)] = allThreads[i]
  <2>1. CASE mains = {}
    BY <1>1, <1>2, <2>1
  <2>2. CASE mains # {}
    <3>1. Min(mains) \in mains
      <4>1. mains \subseteq Nat
        BY <1>2
      <4> HIDE DEF mains
      <4> QED
        BY <2>2, <4>1, LeastOf
    <3>2. PICK info \in Infos : allThreads' = <<info>> \o allThreads
      BY <1>1, <1>2, <2>2, <3>1
    <3> HIDE DEF Natives
    <3> QED
      BY <1>1, <1>2, <3>2
  <2> QED
    BY <2>1, <2>2
<1>7. Out' = Out
  <2>1. Out = allThreads /\ Out' = [i \in DOMAIN tasks |-> Told(i)']
    BY <1>1 DEF Out
  <2>2. \A i \in DOMAIN tasks : Told(i)' = allThreads[i]
    BY <1>1, <1>2, <1>6 DEF Told
  <2>3. allThreads = [i \in DOMAIN tasks |-> allThreads[i]]
    BY <1>1, <1>2
  <2> QED
    BY <2>1, <2>2, <2>3
<1>8. MatchInv'
  BY <1>0, <1>1, <1>5, <1>6, <1>7 DEF MatchInv
<1> QED
  BY <1>3, <1>4, <1>8 DEF ThreadsInv

LEMMA ThreadsStep == ThreadsInv /\ [TNext]_tvars => ThreadsInv'
<1> SUFFICES ASSUME ThreadsInv, [TNext]_tvars PROVE ThreadsInv'
  OBVIOUS
<1>0. running \subseteq Threads /\ IsFiniteSet(running)
  BY DEF ThreadsInv, ListsInv
<1>1. CASE GetAllThreads
  BY <1>1, SnapshotStep, ListTaskStep, ReadCommStep, MatchTaskStep, AddMainStep
     DEF GetAllThreads
<1>2. ASSUME NEW t \in Threads, Start(t) PROVE ThreadsInv'
  <2>1. running' = running \cup {t} /\ UNCHANGED <<pc, lists>>
    BY <1>2 DEF Start
  <2> QED
    BY <1>0, <2>1, FS_AddElement, OthersStep
<1>3. ASSUME NEW t \in Threads, End(t) PROVE ThreadsInv'
  <2>1. running' = running \ {t} /\ UNCHANGED <<pc, lists>>
    BY <1>3 DEF End
  <2> QED
    BY <1>0, <2>1, FS_RemoveElement, OthersStep
<1>4. CASE Done \/ UNCHANGED tvars
  BY <1>0, <1>4, OthersStep DEF Done, tvars, others
<1> QED
  BY <1>1, <1>2, <1>3, <1>4 DEF TNext

\* The matching invariant holds however threads come and go.
THEOREM ThreadsInvariant == TSpec => []ThreadsInv
BY InitThreads, ThreadsStep, PTL DEF TSpec

\* If a thread of the runtime is told to be native, every entry its name passes for was
\* taken by an earlier task; were those tasks all of the snapshot and of its name, they
\* would be as many as the entries of that name, and the thread itself is one more.
LEMMA TakenByAnother ==
  ASSUME ThreadsInv, pc = "done", NEW i \in DOMAIN tasks,
         InSnapshot(tasks[i]), tasks[i] # Main, comms[i] # Failed, Told(i).isNative
  PROVE  \E u \in ToSet(tasks) : Confusing(u, tasks[i])
<1> SUFFICES ASSUME \A u \in ToSet(tasks) : ~Confusing(u, tasks[i]) PROVE FALSE
  OBVIOUS
<1> DEFINE t == tasks[i]
           E == {k \in DOMAIN jvmThreads : jvmThreads[k].name = NameOf[t]}
<1>0. ListsInv /\ NamesInv /\ MatchInv
  BY DEF ThreadsInv
<1>1. /\ tasks \in Seq(Threads) /\ jvmThreads \in Seq(Infos)
      /\ \A j \in DOMAIN tasks : comms[j] \in {Comm(tasks[j]), Failed}
      /\ \A j, k \in DOMAIN tasks : tasks[j] = tasks[k] => j = k
  <2>1. DOMAIN comms = DOMAIN tasks
    <3>1. Len(comms) = Len(tasks)
      BY <1>0 DEF MatchInv
    <3> QED
      <4>1. /\ comms \in Seq({Comm(u) : u \in Threads} \cup {Failed})
            /\ tasks \in Seq(Threads)
        BY <1>0 DEF NamesInv, ListsInv
      <4> QED
        BY <3>1, <4>1
  <2>2. \A j \in DOMAIN tasks : comms[j] \in {Comm(tasks[j]), Failed}
    BY <1>0, <2>1 DEF NamesInv
  <2>3. ASSUME NEW j \in DOMAIN tasks, NEW k \in DOMAIN tasks, tasks[j] = tasks[k]
        PROVE  j = k
    <3>1. tasks \in Seq(Threads) /\ \A l, m \in DOMAIN tasks : l < m => tasks[l] < tasks[m]
      BY <1>0 DEF ListsInv
    <3>2. tasks[j] \in Nat /\ j \in Nat /\ k \in Nat
      <4>1. tasks[j] \in Threads /\ j \in Nat /\ k \in Nat
        BY <3>1
      <4> QED
        BY <4>1, ThreadsAssumption
    <3>3. ~(j < k) /\ ~(k < j)
      BY <2>3, <3>1, <3>2
    <3> QED
      BY <3>2, <3>3
  <2> QED
    BY <1>0, <2>2, <2>3 DEF ListsInv
<1>2. \A k \in DOMAIN jvmThreads : /\ jvmThreads[k].jvmId \in Jvm
                                   /\ jvmThreads[k].name = NameOf[jvmThreads[k].jvmId]
                                   /\ jvmThreads[k] = JvmInfo(jvmThreads[k].jvmId)
  <2>1. \A info \in Infos : info.jvmId \in Jvm /\ info.name = NameOf[info.jvmId]
                            /\ info = JvmInfo(info.jvmId)
    BY DEF Infos, JvmInfo
  <2> QED
    BY <1>1, <2>1
<1>3. t \in Threads /\ comms[i] = Comm(t) /\ SameName(NameOf[t], comms[i])
  BY <1>1, OwnName
<1>4. PICK mine \in E : jvmThreads[mine].jvmId = t
  BY <1>2 DEF InSnapshot
\* An entry of the name is taken by another task, which is a thread of the name.
<1>5. \A k \in E : \E e \in E \ {mine}, j \in DOMAIN tasks :
        Told(j) = jvmThreads[k] /\ jvmThreads[e].jvmId = tasks[j]
  <2> TAKE k \in E
  <2> DEFINE told == [l \in DOMAIN tasks |-> Told(l)]
  <2>0. Out = told /\ DOMAIN told = DOMAIN tasks /\ \A l \in DOMAIN tasks : told[l] = Told(l)
    BY DEF Out
  <2> HIDE DEF told
  <2>1. PICK j \in 1 .. i - 1 : told[j] = jvmThreads[k]
    <3>1. k \in DOMAIN jvmThreads /\ SameName(jvmThreads[k].name, comms[i])
      BY <1>3
    <3> QED
      BY <1>0, <2>0, <3>1 DEF MatchInv
  <2>2. j \in DOMAIN tasks /\ j # i /\ Told(j) = jvmThreads[k]
    BY <1>1, <2>0, <2>1
  <2>3. SameName(NameOf[t], comms[j])
    BY <1>0, <2>0, <2>1, <2>2 DEF MatchInv
  <2>4. comms[j] = Comm(tasks[j])
    BY <1>1, <1>2, <1>4, <2>2, <2>3, FailedAssumption
  <2>5. tasks[j] # t /\ tasks[j] \in ToSet(tasks)
    BY <1>1, <2>2 DEF ToSet
  <2>6. InSnapshot(tasks[j]) /\ NameOf[tasks[j]] = NameOf[t]
    BY <2>3, <2>4, <2>5 DEF Confusing
  <2>7. PICK e \in DOMAIN jvmThreads : jvmThreads[e].jvmId = tasks[j]
    BY <2>6 DEF InSnapshot
  <2>8. e \in E /\ e # mine
    BY <1>2, <1>4, <2>5, <2>6, <2>7
  <2> QED
    BY <2>2, <2>7, <2>8
<1> DEFINE f == [k \in E |-> CHOOSE e \in E \ {mine} : \E j \in DOMAIN tasks :
                    Told(j) = jvmThreads[k] /\ jvmThreads[e].jvmId = tasks[j]]
<1>6. \A k \in E : f[k] \in E \ {mine} /\ \E j \in DOMAIN tasks :
        Told(j) = jvmThreads[k] /\ jvmThreads[f[k]].jvmId = tasks[j]
  BY <1>5
<1>7. f \in [E -> E \ {mine}]
  BY <1>6
<1> HIDE DEF f
<1>8. \A k, l \in E : f[k] = f[l] => k = l
  <2> TAKE k, l \in E
  <2> HAVE f[k] = f[l]
  <2>1. jvmThreads[k] = jvmThreads[l]
    BY <1>1, <1>6
  <2> QED
    BY <1>0, <1>1, <2>1 DEF ListsInv, Distinct
<1>9. IsFiniteSet(E) /\ IsFiniteSet(E \ {mine}) /\ Cardinality(E \ {mine}) < Cardinality(E)
  <2>1. IsFiniteSet(DOMAIN jvmThreads) /\ E \in SUBSET (DOMAIN jvmThreads)
    BY <1>1, FS_Interval
  <2> HIDE DEF E
  <2>2. IsFiniteSet(E) /\ Cardinality(E) \in Nat
    BY <2>1, FS_Subset, FS_CardinalityType
  <2>3. IsFiniteSet(E \ {mine}) /\ Cardinality(E \ {mine}) = Cardinality(E) - 1
    BY <1>4, <2>2, FS_RemoveElement
  <2> QED
    BY <2>2, <2>3
<1> HIDE DEF E
<1> QED
  BY <1>7, <1>8, <1>9, FS_PigeonHole

\* A thread of the runtime that lives through the call is told to be one, whichever
\* threads come and go and share its name, unless another name passes for its own.
THEOREM ThreadsAreTold == TSpec => []RuntimeThreadsAreTold
<1>1. ThreadsInv => RuntimeThreadsAreTold
  BY TakenByAnother DEF RuntimeThreadsAreTold
<1> QED
  BY <1>1, ThreadsInvariant, PTL
=============================================================================
