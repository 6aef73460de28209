------------------------------ MODULE OomMonitor ------------------------------
(***************************************************************************)
(* OomMonitor: each monitor is a Runnable that a HandlerThread runs and    *)
(* that posts itself again.  start(), stop() and the listener methods are  *)
(* called from any thread and take no lock, so each is split where it      *)
(* reads or writes what they share with the looper.  A Handler is known by *)
(* its generation.  Delays are left out: a message may be handled any time *)
(* after it is posted.                                                     *)
(***************************************************************************)
EXTENDS OomJudge, SequencesExt

CONSTANTS Clients,    \* threads that call OomMonitor
          Listeners,
          Scenarios,  \* what they call, and what the monitors read: see Scenario
          MaxCalls,   \* bound on the calls
          MaxGens     \* bound on the handlers start() makes

CallKinds == {"start", "stop", "add", "del", "clear", "get"}
Null == 0

\* The monitors that take part, what each may read, who calls and which methods.
IsScenario(sc) ==
    /\ sc.running \subseteq Monitors /\ sc.running # {}
    /\ DOMAIN sc.readings = Monitors
    /\ sc.readings["memory"] \subseteq [sys : Nat, heap : 0 .. MaxHeap]
    /\ \A m \in Monitors \ {"memory"} : sc.readings[m] \subseteq Nat
    /\ sc.callers \subseteq Clients /\ sc.calls \subseteq CallKinds

ASSUME ScenariosAssumption == \A sc \in Scenarios : IsScenario(sc)
ASSUME BoundsAssumption == MaxCalls \in Nat /\ MaxGens \in Nat

Gens == 1 .. MaxGens

VARIABLES
    scenario,    \* fixed from the start
    handler,     \* Null, or the generation of the handler in use
    gens,        \* handlers made so far
    pending,     \* messages in the queue, for each monitor and handler
    at, cur,     \* where the looper stands, and the monitor it runs
    h,           \* `handler` as the looper read it
    count, last, \* ...ContinuousOverThresholdCount and the last reading of each
    lastRecord,  \* MemInfo.lastRecord: the heap in it, or -1
    verdict,     \* what each monitor last found
    listeners, modCount,
    iter,        \* reportOom's iterator: next index, expected modCount, told
    cpc, ch,     \* where each client stands, and `handler` as it read it
    calls,
    own,         \* history: the heap the memory monitor read last, or -1, and whether
                 \* the application has read it since
    missed,      \* history: monitors that ended while start() had yet to set handler
    rushed       \* history: has start() found a message or a run of an earlier one?

judging == <<count, last, lastRecord, verdict, own>>
looping == <<at, cur, h, iter>>
list    == <<listeners, modCount>>
clients == <<cpc, ch, calls>>
vars == <<scenario, handler, gens, pending, looping, judging, list, clients, missed, rushed>>

Running == scenario.running

NoIter == [next |-> 1, mods |-> 0, told |-> {}, owed |-> {}, removed |-> FALSE]

Init ==
    /\ scenario \in Scenarios
    /\ handler = Null /\ gens = 0
    /\ pending = [m \in Monitors |-> [g \in Gens |-> 0]]
    /\ at = "idle" /\ cur \in Running /\ h = Null /\ iter = NoIter
    /\ count = [m \in Monitors |-> 0] /\ last = [m \in Monitors |-> 0]
    /\ lastRecord = -1 /\ own = [heap |-> -1, disturbed |-> FALSE]
    /\ verdict = [m \in Monitors |-> "none"]
    /\ listeners = <<>> /\ modCount = 0
    /\ cpc = [c \in Clients |-> "out"] /\ ch = [c \in Clients |-> Null] /\ calls = 0
    /\ missed = {} /\ rushed = FALSE

-----------------------------------------------------------------------------
(* start() and stop().                                                     *)

\* A monitor goes on as long as a message of it waits, or a run of it will post another.
Runs(m) == at \notin {"idle", "dead"} /\ cur = m

Alive(m) == Runs(m) \/ \E g \in Gens : pending[m][g] > 0

Goto(c, from, to) == cpc[c] = from /\ cpc' = [cpc EXCEPT ![c] = to]

Call(kind) == kind \in scenario.calls /\ calls < MaxCalls /\ calls' = calls + 1

\* handler != null: started already.
StartCheck(c) ==
    /\ Call("start")
    /\ Goto(c, "out", IF handler # Null THEN "out" ELSE "post")
    /\ UNCHANGED <<scenario, handler, gens, pending, looping, judging, list, ch, missed, rushed>>

\* The new handler is filled before it is assigned; the looper may come in between,
\* with the three posts as well as after them.
StartPost(c) ==
    /\ gens < MaxGens
    /\ Goto(c, "post", "assign")
    /\ gens' = gens + 1
    /\ pending' = [m \in Monitors |-> IF m \in Running THEN [pending[m] EXCEPT ![gens'] = 1]
                                               ELSE pending[m]]
    /\ ch' = [ch EXCEPT ![c] = gens']
    /\ rushed' = (rushed \/ \E m \in Running : Alive(m))
    /\ UNCHANGED <<scenario, handler, looping, judging, list, calls, missed>>

StartAssign(c) ==
    /\ Goto(c, "assign", "out")
    /\ handler' = ch[c]
    /\ UNCHANGED <<scenario, gens, pending, looping, judging, list, ch, calls, missed, rushed>>

StopCheck(c) ==
    /\ Call("stop")
    /\ Goto(c, "out", IF handler = Null THEN "out" ELSE "read")
    /\ UNCHANGED <<scenario, handler, gens, pending, looping, judging, list, ch, missed, rushed>>

StopRead(c) ==
    /\ Goto(c, "read", "remove")
    /\ ch' = [ch EXCEPT ![c] = handler]
    /\ UNCHANGED <<scenario, handler, gens, pending, looping, judging, list, calls, missed, rushed>>

\* Mutant: nothing is removed.
StopRemoveNothing(c) ==
    /\ Goto(c, "remove", "clear")
    /\ UNCHANGED <<scenario, handler, gens, pending, looping, judging, list, ch, calls, missed, rushed>>

\* removeCallbacksAndMessages(null): what this handler has in the queue.
StopRemove(c) ==
    /\ Goto(c, "remove", "clear")
    /\ pending' = [m \in Monitors |->
                     [g \in Gens |-> IF g = ch[c] THEN 0 ELSE pending[m][g]]]
    /\ UNCHANGED <<scenario, handler, gens, looping, judging, list, ch, calls, missed, rushed>>

StopClear(c) ==
    /\ Goto(c, "clear", "out")
    /\ handler' = Null
    /\ UNCHANGED <<scenario, gens, pending, looping, judging, list, ch, calls, missed, rushed>>

-----------------------------------------------------------------------------
(* The listeners, an ArrayList, and the application's own MemInfo.get().    *)

ListKeeps == <<scenario, handler, gens, pending, at, cur, h, judging, cpc, ch, missed, rushed>>

\* (History: `owed`, the listeners that have been there since the report began, and
\* whether any has been removed since.)
ChangeList(new) ==
    /\ listeners' = new
    /\ modCount' = modCount + 1
    /\ iter' = [iter EXCEPT !.owed = @ \cap {new[i] : i \in DOMAIN new},
                            !.removed = @ \/ Len(new) < Len(listeners)]
    /\ UNCHANGED ListKeeps

\* A listener is added once; a listener may call these from its onOom.
AddListener(l) ==
    /\ Call("add")
    /\ \A i \in DOMAIN listeners : listeners[i] # l
    /\ ChangeList(Append(listeners, l))

DelListener(l) ==
    /\ Call("del")
    /\ \E i \in DOMAIN listeners : listeners[i] = l
    /\ ChangeList(RemoveFirst(listeners, l))

DelAllListeners == Call("clear") /\ ChangeList(<<>>)

MemInfoGet ==
    /\ Call("get")
    /\ \E mem \in scenario.readings["memory"] : lastRecord' = mem.heap
    /\ own' = [own EXCEPT !.disturbed = TRUE]
    /\ UNCHANGED <<scenario, handler, gens, pending, looping, count, last, verdict, list, cpc, ch,
                   missed, rushed>>

-----------------------------------------------------------------------------
(* A monitor's run(), on the looper.                                       *)

Dispatch(m, g) ==
    /\ at = "idle" /\ pending[m][g] > 0
    /\ at' = "run" /\ cur' = m
    /\ pending' = [pending EXCEPT ![m][g] = @ - 1]
    /\ UNCHANGED <<scenario, handler, gens, h, iter, judging, list, clients, missed, rushed>>

Verdict(m, reading) ==
    CASE m = "memory" -> MemoryVerdict(reading, lastRecord, last[m], count[m])
      [] m = "thread" -> CountVerdict("ThreadOverFlow", reading, Config.thread, last[m], count[m])
      [] m = "fd"     -> CountVerdict("FdExhausted", reading, Config.fd, last[m], count[m])

\* What the next run compares its reading with.
Level(m, reading) == IF m = "memory" THEN HeapUsedRatio(reading.heap) ELSE reading

\* Mutant: the count is set and not increased.
CountAfterOne(m, v) == IF v.confirming THEN 1 ELSE 0

CountAfter(m, v) == IF v.confirming THEN count[m] + 1 ELSE 0

\* Only the looper reads the counts, so that they may be set before the report.
Run(m) ==
    /\ at = "run" /\ cur = m
    /\ \E reading \in scenario.readings[m] :
         LET v == Verdict(m, reading) IN
         /\ count' = [count EXCEPT ![m] = CountAfter(m, v)]
         /\ last' = [last EXCEPT ![m] = Level(m, reading)]
         /\ lastRecord' = IF m = "memory" THEN reading.heap ELSE lastRecord
         /\ own' = IF m = "memory" THEN [heap |-> reading.heap, disturbed |-> FALSE] ELSE own
         /\ verdict' = [verdict EXCEPT ![m] =
               IF v.type # "none" THEN "report" ELSE IF v.confirming THEN "confirming" ELSE "calm"]
         /\ at' = IF v.type # "none" THEN "report" ELSE "repost"
    /\ iter' = [next |-> 1, mods |-> modCount, told |-> {},
                owed |-> {listeners[i] : i \in DOMAIN listeners}, removed |-> FALSE]
    /\ UNCHANGED <<scenario, handler, gens, pending, cur, h, list, clients, missed, rushed>>

\* forEach: hasNext compares the index with the size and nothing else; next()
\* throws when the list has been changed, and ends the process with its looper.
\* Mutant: the loop ends one listener early.
ReportOverEarly == iter.next >= Len(listeners)

ReportOver == iter.next = Len(listeners) + 1

ReportOom ==
    /\ at = "report"
    /\ IF ReportOver THEN at' = "repost" /\ UNCHANGED iter
       ELSE IF iter.mods # modCount THEN at' = "dead" /\ UNCHANGED iter
       ELSE /\ iter' = [iter EXCEPT !.next = @ + 1, !.told = @ \cup {listeners[iter.next]}]
            /\ UNCHANGED at
    /\ UNCHANGED <<scenario, handler, gens, pending, cur, h, judging, list, clients, missed, rushed>>

\* handler?.postDelayed(this, ...): reads handler, then posts to what it read.
\* (missed is history: a start() has posted this run but not set handler yet.)
Starting == \E c \in Clients : cpc[c] = "assign"

ReadHandler ==
    /\ at = "repost"
    /\ h' = handler
    /\ at' = "post"
    /\ missed' = IF handler = Null /\ Starting THEN missed \cup {cur} ELSE missed
    /\ UNCHANGED <<scenario, handler, gens, pending, cur, iter, judging, list, clients, rushed>>

\* Mutants: posts twice; posts only when a reading is to be confirmed.
PostTwice ==
    /\ at = "post"
    /\ at' = "idle"
    /\ pending' = IF h = Null THEN pending ELSE [pending EXCEPT ![cur][h] = @ + 2]
    /\ h' = Null
    /\ UNCHANGED <<scenario, handler, gens, cur, iter, judging, list, clients, missed, rushed>>

PostToConfirm ==
    /\ at = "post"
    /\ at' = "idle"
    /\ pending' = IF h = Null \/ verdict[cur] # "confirming" THEN pending
                  ELSE [pending EXCEPT ![cur][h] = @ + 1]
    /\ h' = Null
    /\ UNCHANGED <<scenario, handler, gens, cur, iter, judging, list, clients, missed, rushed>>

PostAgain ==
    /\ at = "post"
    /\ at' = "idle"
    /\ pending' = IF h = Null THEN pending ELSE [pending EXCEPT ![cur][h] = @ + 1]
    /\ h' = Null
    /\ UNCHANGED <<scenario, handler, gens, cur, iter, judging, list, clients, missed, rushed>>

-----------------------------------------------------------------------------
DispatchAny(m) == m \in Running /\ \E g \in Gens : Dispatch(m, g)

ClientStep(c) ==
    \/ StartPost(c) \/ StartAssign(c)
    \/ StopRead(c) \/ StopRemove(c) \/ StopClear(c)

LooperStep == (\E m \in Running : Run(m)) \/ ReportOom \/ ReadHandler \/ PostAgain

NewCall ==
    \/ \E c \in scenario.callers : StartCheck(c) \/ StopCheck(c)
    \/ \E l \in Listeners : AddListener(l) \/ DelListener(l)
    \/ DelAllListeners \/ MemInfoGet

Next ==
    \/ NewCall
    \/ \E c \in Clients : ClientStep(c)
    \/ \E m \in Monitors : DispatchAny(m)
    \/ LooperStep

Spec == Init /\ [][Next]_vars

\* Threads are scheduled and the queue hands over every message in the end.
FairSpec ==
    /\ Spec
    /\ WF_vars(LooperStep)
    /\ \A c \in Clients : WF_vars(ClientStep(c))
    /\ \A m \in Monitors : SF_vars(DispatchAny(m))

-----------------------------------------------------------------------------
(* Properties.                                                             *)

\* Every variable stays in its range; an over-threshold count never gets to its
\* limit, where it is reported and starts again.
TypeOK ==
    /\ scenario \in Scenarios
    /\ handler \in {Null} \cup Gens /\ gens \in {0} \cup Gens
    /\ pending \in [Monitors -> [Gens -> Nat]]
    /\ at \in {"idle", "run", "report", "repost", "post", "dead"}
    /\ cur \in Running /\ h \in {Null} \cup Gens
    /\ count \in [Monitors -> 0 .. OVER_THRESHOLD_COUNT_LIMIT - 1]
    /\ last \in [Monitors -> Nat] /\ lastRecord \in Nat \cup {-1}
    /\ own \in [heap : Nat \cup {-1}, disturbed : BOOLEAN]
    /\ verdict \in [Monitors -> {"none", "calm", "confirming", "report"}]
    /\ listeners \in Seq(Listeners) /\ modCount \in Nat
    /\ cpc \in [Clients -> {"out", "post", "assign", "read", "remove", "clear"}]
    /\ ch \in [Clients -> {Null} \cup Gens]
    /\ calls \in 0 .. MaxCalls /\ missed \subseteq Running

\* However often and from wherever OomMonitor is started, each monitor runs once
\* per period: it has one message, or one run, and never two.
OneChain ==
    \A m \in Running :
        /\ Runs(m) => \A g \in Gens : pending[m][g] = 0
        /\ \A g, k \in Gens : pending[m][g] > 0 => pending[m][g] = 1 /\ (g # k => pending[m][k] = 0)

\* Two chains of a monitor come only from a start() that finds a message or a run
\* of it left over, however start() and stop() calls overlap otherwise.
OneChainUnlessRushed == ~rushed => OneChain

\* Used from one thread, where start() and stop() do not overlap.
OneCaller == \E c \in Clients : scenario.callers = {c}

\* What is left of the monitors: the messages that wait, and the run under way.
Waiting == UNION {{<<m, g, n>> : n \in 1 .. pending[m][g]} : m \in Running, g \in Gens}
Going   == {<<m, Null, 0>> : m \in {k \in Running : Runs(k)}}
Left    == Waiting \cup Going

\* After any stop(), and until the next start() posts its own: of all the monitors just
\* the run that was under way is left, or the message it has posted since.  Where a
\* start() came upon such a leftover, no later stop() takes it away, as it belongs to
\* an earlier handler: then there is at most one for each handler made.  (With one
\* thread that calls; with several, as long as there has been one handler only.)
StopLeavesOneRun ==
    (OneCaller \/ gens <= 1) /\ handler = Null /\ (\A c \in Clients : cpc[c] = "out")
        => Cardinality(Left) <= IF rushed THEN gens ELSE 1

Expected(m) == m \in Running /\ OneCaller

\* Used from one thread, a started monitor goes on running, unless it ran so early
\* that start() had not set its handler yet, or a listener list changed under a report.
MonitoringGoesOn ==
    \A m \in Monitors :
        []<>(~Expected(m) \/ handler = Null \/ (at = "run" /\ cur = m)
                          \/ m \in missed \/ at = "dead")

\* A monitor whose readings never calm down reports again and again, as long as it
\* runs (see MonitoringGoesOn).
OverloadReported ==
    \A m \in Monitors :
        <>[](Expected(m) /\ verdict[m] \in {"confirming", "report"}) =>
            []<>(verdict[m] = "report" \/ handler = Null \/ m \in missed \/ at = "dead")

\* A report that ends has told every listener that was there all the while, unless
\* another one was removed meanwhile: then one may be passed over.
ToldUnlessRemoved ==
    at = "report" /\ ReportOver => iter.owed \subseteq iter.told \/ iter.removed

\* A heap that is all but full is noticed, whatever the device and the configuration.
\* Beyond 98% it is reported, and in strict mode beyond the configured ratio; otherwise,
\* with 192 MB or more for the heap (with less, the device's threshold is in megabytes),
\* beyond 96%, the highest threshold of a device, it is reported or counts towards the
\* three readings in a row that are, unless it has fallen back.  (Outside strict mode the
\* configured ratio is not looked at: on 384 MB and more a heap may well be used beyond
\* it and calm.)
HeapOverThresholdNoticed ==
    [][at = "run" /\ at' # "run" /\ cur = "memory" =>
          /\ last'[cur] > 98 \/ (Config.strict /\ last'[cur] > Config.heap)
               => verdict'[cur] = "report"
          /\ ~Config.strict /\ MaxHeap >= 192
             /\ last'[cur] > 96 /\ last'[cur] >= last[cur] - JAVA_HEAP_RATIO_FALL_BACK_GAP
               => verdict'[cur] = "report" \/ count'[cur] = count[cur] + 1]_vars

\* A heap that has swollen beyond the threshold since the monitor's own last reading is
\* reported at once, unless the application has called MemInfo.get() in between: the
\* monitor compares with whatever record is the last.
SwellReportedUnlessDisturbed ==
    [][at = "run" /\ at' # "run" /\ cur = "memory"
          /\ own.heap # -1 /\ ~own.disturbed /\ lastRecord' - own.heap > Config.swell
          => verdict'["memory"] = "report"]_vars
=============================================================================
