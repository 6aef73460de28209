# Verification of xapm

xapm is a set of Android libraries that watch over an app from inside its own
process: they catch crashes, watch memory, threads and descriptors, notice
garbage collections, and dump the Java heap from a forked child while stripping
what is not needed. This directory holds TLA+ models of the parts whose
correctness depends on an order of events or on arithmetic over a binary format,
the TLC configurations that check them on small instances, and TLAPS proofs.

`PROJECT.json` lists, for every definition, the lines it models; for every run,
what it checks; for every property, a mutated definition that breaks it.

## 1. Inventory

| Part (under `src/`) | State | Operations | What is hard |
|---|---|---|---|
| **Strip hooks** `hprof/hprofclipper/.../hprof_strip.cpp` | name and descriptor of the hprof file; heap flag; strip list and sum of one write | `SetHprofName`, hooked `open`, hooked `write` (parse, correct the length, write what is kept) | sizes added by hand; state that survives some calls and not others; short and failing writes; a descriptor remembered beyond `close` |
| **Fork dumper** `hprof_dump.cpp`, `ForkJvmHeapDumper`, `ForkStripHeapDumper` | two singleton locks; suspended threads, GC critical section, mutator lock; children | `dump`, `dumpWithNonBlockManner`; `SuspendAndFork`, `ResumeAndWait`; the child's dump | fork with locks held; failures at every step; concurrent requests; a child that hangs |
| **Native crash catcher** `nativecrashcatcher.cpp` | handler table, `handleSigState`, one report buffer, a mutex and a condition variable | set-up, `sigHandler` on any thread, the cleanup thread | everything is shared and nothing is atomic; lost notifications |
| **CrashCatcher** `CrashCatcher.kt` | activity stack, callback, a logger nobody assigns | `init`, lifecycle callbacks, `callbackToUI` for uncaught exceptions and native crashes | crashes on several threads, during `init` too; what throws on the way out of a crash |
| **Stuck monitor** `CrashCatcher.kt` l.232-334 | message numbers, two delayed messages | looper printer, monitor thread | a race between a delay and an end |
| **OomMonitor** `OomMonitor.kt` | handler, three counts and last readings, listeners | `start`, `stop`, listener methods, three self-posting monitors | no lock anywhere; state that outlives `stop` |
| **MemInfo** `MemInfo.kt` | the last record | `get` | shared last record |
| **GcProbe** `GcProbe.kt` | the probe, the listeners, a lock | add, remove, the probe's finalizer | an object whose end is the event; re-entrant listeners |
| **ThreadInfo** `ThreadInfo.kt` | none | list the threads of the process | two listings taken one after the other, matched by names that repeat and are cut |
| **FdInfo** `FdInfo.kt` | none | list the descriptors | |
| **Linker helpers** `kwai_dlfcn.cpp`, `elf_reader.cpp`, `map_util.hpp` | a handle: path and base | `dlopen`, `dlsym`, `dlopen_elf`, `dlsym_elf`; `HprofDump::Initialize` on top of them | four ways by version; hash chains; a loader that moves on under the handle |
| **Logging, demos, build** | | | |

How they interact: `ForkStripHeapDumper` names the file in the strip library and
calls `ForkJvmHeapDumper`, which suspends and forks through `HprofDump`, with
functions of the runtime that `DlFcn` has found in libart; in the child the runtime's dump goes through the strip hooks. The child inherits the
crash catcher's handlers, not its cleanup thread. `OomMonitor` reads `MemInfo`,
`ThreadInfo` and `FdInfo` on its own looper and calls listeners there; an app
typically dumps the heap from such a listener.

What makes each part correct:

- *Strip hooks*: the parser never leaves the sub-record boundaries; exactly what
  has to be kept is written, once and in order; the length in the header fits the
  body once the array values are filled in again; other files get what is written to them.
- *Fork dumper*: the child inherits no lock it needs; the app runs while the child
  writes; `true` means that there is a dump; every call ends, with nothing held.
- *Crash catcher*: one whole report, one callback if there is one to call, then the
  earlier handler, then exit, for whichever threads fault.
- *CrashCatcher*: the stack lists the living activities; every crash is told; the
  app is left afterwards if it is to be.
- *Stuck monitor*: a message is reported if it takes longer than the limit, and
  only then.
- *OomMonitor*: one chain of runs per monitor from `start` to `stop`; a lasting
  excess is reported; every listener is told.
- *GcProbe*: while somebody listens there is one probe, and each collection is told.
- *ThreadInfo*: a thread of the runtime is told as one, a native one as native.
- *Linker helpers*: an address is that of the symbol asked for, in the library as it
  lies now; what is loaded and defined is found.

## 2. Modules

| Module | Models | Notes |
|---|---|---|
| `HprofFormat` | the format's constants, sub-records, the size the runtime gives each | no state |
| `HprofStrip` | the hooks | one action per case of `ProcessHeap`, per branch of the write loop |
| `HprofStripProofs` | | the theorems of section 5 about it |
| `ForkDump` | both Java dumpers, `HprofDump` and the children | one action per step between which threads or processes interleave |
| `DumpService` | what the dumper promises its callers | abstract: three variables per request, no threads or locks |
| `ElfReader` | lookups in a library's file | operators only: hash tables as the link editor builds them, and the reader's walks |
| `MapUtil` | where a library lies, by the memory map or the loader's list | operators only |
| `DlFcn` | both pairs of `dlopen` and `dlsym`, and `Initialize`, beside the loader | instances of `ElfReader` and `MapUtil` |
| `HprofDumperProofs` | | the theorems of section 5 about `ForkDump`, among them that it implements `DumpService`, and about `DlFcn` |
| `NativeCrash` | set-up, handler, cleanup thread | `pc` per thread; the condition variable is a wait set |
| `ThreadInfo` | `getAllThreads` beside threads that start and end | one action per entry listed, name read and task matched |
| `CrashCatcher` | `init`, the activity stack, both ways of a crash | one action per step of `init` and of a crash |
| `StuckMonitor` | printer, monitor thread and their lock, with discrete time | one action per critical section's part between which time passes |
| `OomJudge` | the thresholds and the judgement of one reading | operators only |
| `OomMonitor` | clients, looper, message queue, listeners | extends `OomJudge` |
| `GcProbe` | either probe, by the constant `Soft` | |
| `NativeCrashProofs`, `CrashCatcherProofs`, `GcProbeProofs`, `StuckMonitorProofs` | | the theorems of section 5 about them |
| `OomMonitorProofs` | | the theorems of section 5 about `OomMonitor`, and about `ThreadInfo`, which it reports |
| `ListTheorems` | | lemmas on lists without duplicates and on the least of a set, for the other proofs |
| `MC...` | instances of the above for TLC | |

**HprofStrip.** A buffer is the record header followed by sub-records, abstracted
to kind, element count, element type and class tables; a byte is its offset. The
tail recursion of `ProcessHeap` is a loop (`first_index`). Written output is a
sequence of offset ranges, so that "which bytes reached the file, in which order"
is exact although no byte is represented. `IsBuffer` states what the runtime
writes: whole records one behind the other, with no more sub-records than the strip list has pairs
(131073; a segment of the runtime is far smaller). The properties judge the output
by `stream_heap`, a history of the heap infos seen, not by the parser's own flag.
`DiskFails` makes the `write` under way, and all later ones, return -1. The runtime
may close a file at any time between two calls (`Close`), which the hooks do not hear of,
and `open` gives out any free descriptor again, or fails: what it returns is remembered,
-1 included. `stale` is history: the descriptor in `hprof_fd_` has been closed since.

**ForkDump.** A request is one call of one of the two `dump` methods or of
`dumpWithNonBlockManner`. `scenario`, one of the constant `Scenarios`, says what each
request calls (`kind`), which branch on the Android version is taken (`api`) and
what may go wrong (`faults`); `Catcher` says whether the crash catcher is installed (which turns a
crash of the child into a hang). Java threads move only while nobody else keeps
them suspended (`Runs`). The file name stands for the request it was made for.
Paths have a parent directory (the early return at `ForkJvmHeapDumper.java` l.76).
`dumpWithNonBlockManner` holds the lock from the start of its worker to its own return,
and returns what the worker has stored by then (`AsyncReturns`, `returned`): nearly always
`false`.

**DumpService.** The promise of `HeapDumper.dump` and of the asynchronous variant,
without threads, locks or processes: `asked`, `writer` and `answer` of each
request. One dump is written at a time, and only for a caller who waits; nobody is
answered while his dump is being written; `TRUE` means complete, or given up by the
child itself (the exception of `dump_throws`). The mapping is at the end of
`ForkDump`: `asked` is where the caller's thread stands, `writer` what has become of
its child, `answer` the result.

**ElfReader, MapUtil, DlFcn.** `device` fixes the API level, the library files and
what is loaded from the start; the app then loads and unloads its own libraries
between any two calls. A file is its segments, sections, dynamic symbols and full
symbol table; the words of the GNU hash table are kept in file order, since
`gnu_chain` points before the chains and the walk of an empty bucket reads bucket and
bloom words, the header, or the word before the section (`before`). The two hash
functions are constants, on the names in use, chosen so that names collide. A path
is a sequence of pieces of text, which `strstr` finds; the scan of the memory map is
one step. `moved` is history: the library of a handle has been unloaded since.
`IsImage` and `IsLaidOut` state how link editors write a file, `IsDevice` what a device is
like and `IsArt` what its libart is: they are assumed of the instances, and are all that
the proofs know of them.
Damage to a file is one that cannot be opened or mapped, or has lost its section
table. `Initialize` looks up two symbols for each range of versions, in any order.

**NativeCrash.** `handleSigState` is read, read again and written in three steps;
the report is zeroed and appended to in four. `CondWait` unlocks the mutex although
the handler does not own it, as a normal mutex lets it. `scenario` says how many
threads may fault and what else goes wrong. `callback` is "missed" where one of the early
returns of `callbackToUI` is taken (nothing to call, no attaching to the VM, no such method):
the handler is woken all the same. `refused` are the signals `sigaction` has refused,
which stay with the system. `Old` says whether the
earlier handler of a signal is a function or one of the constants `SIG_DFL` and
`SIG_IGN`, which the code calls as well. `disturbed` and `lost` are history: they
record that two threads took charge (or a wait ended by itself), and that a
notification found nobody waiting.

**CrashCatcher.** `logger` is a `lateinit` property that `init` never assigns: it
logs to its parameter of the same name. Whatever uses the property throws, so
`clearActivityStack` ends in its first line, and STOPPING, the exit timer and the
second looper behind it are unreachable: they have no actions, and the activity
state is always RUNNING. The activity that leaves the stack empty throws on the main
thread. Out of the default handler of uncaught exceptions the exception is dropped by the
runtime; out of the native callback it is pending when the cleanup thread detaches,
which dispatches it, so that a native crash is told twice. The native side is
reduced to its outcome (first signal: callback, then exit; the races around it are
in `NativeCrash`).

**StuckMonitor.** Times are ticks; `age` counts from `beginTimeStamp`, a message in
the queue carries the ticks until it is due. `Send` puts a message in front of the first
that is due later, as `MessageQueue` does; `RemoveMessages` keeps the others in their
order. Both threads may be slow at any point,
also inside a critical section: that is where the two threads' views of an end cross
(`crossed`). A message's number stands for the `String` that `removeMessages` compares by
identity; a new printer starts counting again, but with new objects. Messages the
looper handles without a printer are not modelled.

**OomMonitor.** `scenario` fixes the monitors that take part, what they may read,
who calls and which methods. A handler is known by its generation, so that messages of an old
one are told from those of a new one. `own` is history: the heap at the monitor's
last reading, and whether the application has called `MemInfo.get()` since. `start` is split into the test, the posts and
the assignment, `stop` into test, read, removal and assignment, and a run's last
line into the read of `handler` and the post. Delays are left out: a message may be
handled at any later time, which covers every delay the code chooses. Ratios are
integers, in hundredths, as `MemInfo` rounds them; the sums of doubles at l.75 are
thus exact in the model.

**GcProbe.** `fresh` and `queue` count the probes no collection has found and those
that await their finalizer. A weak reference is found by every collection, a soft
one by some. A listener is registered once at a time, and may throw or remove
itself from within the callback. `unheard` is history: whom a collection has still to be
told to, because it found a probe, or because it found none where one should have been.

**ThreadInfo.** The runtime's threads come in any order, the tasks in that of their
numbers. A name is a sequence of characters; the kernel keeps the first `COMM_LEN`
of them, or the last if the runtime sets the name and it has a dot. The kernel knows
the main thread by the package's name. `left` holds the places of the runtime's threads
that no task has been matched with, in place of a list that elements are removed from. The final sort by `isNative` is left out,
as are the fields that are only carried along.

## 3. Runs

| Run | Instance | Shows |
|---|---|---|
| `strip` | 2 descriptors, 2 paths, opened, closed and opened again, with failing opens; each of 15 samples (each case of `ProcessHeap`, each element size class) on its own, behind a heap info of either kind and before a strip, and three in a row of those that open, close or cross a strip; 2 writes to the hprof, capacity 3, short writes, a disk that fails | parser, strips and output are right for each kind and across two writes; other files get what is written to them, but for a heap-dump record on the descriptor the hprof had; `write` returns unless the disk failed |
| `dump` | 3 requests, 5 scenarios: the three kinds together on R to U with failing files, throwing and crashing children, and with a failing `fork`; blocking strips before R with a full disk and ignored SIGCHLD; the three kinds before R with a full disk; strip and plain after U; catcher installed | that `ForkDump` implements `DumpService`; no inherited lock, one child at a time, truthful results, of the non-blocking call as well, but for a dump that throws, blocking requests stripped, nothing left held, every call ends and every listener is told |
| `crash` | 2 threads, 2 signals; two faults and nothing else, or one fault and every fault of `FaultKinds`, among them a callback that cannot be called and a refused signal | the Solo properties, and when the handler ends the process |
| `linker` | 11 devices (API 22 to 35) with libart, the vdso, and of the app a library, one without exports and one named like libart, or with its name twice in its path, with either hash table, both or none, one or several segments, on and off page boundaries; 4 bases, pages of 8 bytes, words of 8 bits, 2 loads | true addresses but for a stale handle, unaligned code on Android 5 and imports in the full table; nothing missed; `Initialize` resolves in libart |
| `oom` | 2 handlers, 4 calls, 256 MB, 2 listeners, 4 scenarios: 2 clients, or 1, that start and stop 2 quiet monitors; 1 client and the memory monitor with 5 readings around the thresholds and every call; 1 client and the descriptor monitor with listeners that come and go | where second chains come from, what each `stop` leaves, that monitoring goes on, that a heap that is all but full is noticed, that overloads and swelling heaps are reported, and to whom |
| `gc` | the softly held probe, 2 listeners that throw or remove themselves, 5 calls, 3 collections | second callbacks come of one order of calls only; each collection is told, also after a listener threw |
| `catcher` | 2 threads, 2 activities | the stack, every exception told, a native crash ends the process |
| `stuck` | 2 messages, 2 calls of `setMainThreadStuckListener`, limits below and above the logging threshold, ages up to 4 ticks | true reports but for crossed ends, and no stuck message missed |
| `threads` | 6 threads: main, two of one name, one with a cut name, a native one with the name that is left of it, another native one; `COMM_LEN` 2 | threads of the runtime are told as such, unless a name passes for another |

The other three are the disagreements below.

Why the bounds suffice. The parser carries two things from one sub-record to the
next, the offset and the heap flag, and from one write to the next the flag alone:
three sub-records and two writes give every case in every heap. Three requests fill
both locks and leave one waiting. Two faulting threads give every interleaving of
the test and set of `handleSigState`; a third only adds waiters. Two generations
of handlers and two clients give every overlap of `start` and `stop`. Four calls
allow start, stop, start, stop. Three collections find a probe, its successor and
the successor's. A soft reference behaves as a weak one whenever the collection
finds it, so that the heavy probe's run includes the light one's. Two threads that
crash, each at any point of `init`, and two activities that leave in either order
give every case of `CrashCatcher`, where a thread crashes once. A message of the looper
meets the leftovers of the one before and no others, since the queue is in the order of time and
removal is by number: two messages are enough. The delays of `stuck` keep their
order (delay, half a second, limit), and an age of 4 is over all of them. Between
two calls on a handle a library is at most unloaded and loaded elsewhere, which two
loads give; the devices stand on both sides of each version the code compares with, and
their names meet in buckets, pass the bloom filter of a file that does not define
them, and fall into empty buckets. The bloom words of `linker` have 8 bits and not
32, with as many names as fill some of them. A thread of `threads` meets one of its own
name, one that its cut name fits, and one that is neither; a third of a name adds
another of the same.

Deadlock checking is off for `crash` and `catcher*` (the process exits, or hangs),
`oom` (calls are bounded; a looper whose listener list changed dies), `gc` (bounded
calls and collections) and `stuck` (bounded messages). It is on for the others;
`DumpOver`, `AllDone` and `Done` mark the intended end of `strip`, `dump*` and `threads`.

### Disagreements between code and documentation

Each is a run that TLC must find violated; section "findings" of `PROJECT.json`
quotes the text.

| Run | The code |
|---|---|
| `dump_names_race` | writes the first of two non-blocking dumps unstripped |
| `dump_throws` | returns `true` when the child's dump threw |
| `catcher_quit` | stays after an uncaught exception although the exit is forced |

The Solo, Unless and Blocking variants of these properties, in the passing runs,
say how far the promise does hold. They, and the other passing properties, also mark
the exact limits of some other behaviour; where a document says otherwise, it is named:

- A failed `fork` leaves all other threads suspended for good (`Frozen`, excused in
  `NothingLeftHeld`, `DumpReturns` and `ListenerNotified`).
- The crash handler waits for ever if its notification comes before the cleanup
  thread waits (`lost`), if the callback itself faults, or if the earlier handler
  was `SIG_IGN` (`FaultsWithin`): `CrashEndsUnlessLost`.
- If the callback cannot be called (none was given, the thread cannot be attached to the VM,
  the method is missing) the process exits without one ("missed"): `SoloExitAfterCallback`.
- Of two threads that fault together one may be woken by the other's notification,
  and exit before the callback has returned (`disturbed`): `SoloExitAfterCallback`.
- Removing a listener while a report goes round passes over another, since the loop
  compares its index with the size of a plain list (`iter.removed`): `ToldUnlessRemoved`.
- `stop()` and `start()` in the middle of a monitor's run leave two chains of that
  monitor (`rushed`): `OneChainUnlessRushed`. The messages of the older one carry a handler
  that no later `stop()` knows, so that they go on: with one caller at most one for each
  handler made is left after a `stop()`, and otherwise one in all: `StopLeavesOneRun`. With
  several callers that overlap over several handlers no such bound is claimed.
- A file that is given the hprof's descriptor after it was closed is taken for the hprof
  until the next `open` of that name: heap-dump records written to it are stripped (`stale`):
  `OthersIntact`. The child of a dump opens no other file of this kind.
- A monitor whose first run ends before `start()` has assigned `handler` is not run
  again (`missed`): `MonitoringGoesOn`.
- The counts of consecutive readings survive `stop()`: a restarted monitor may
  report after fewer readings than the limit. No property decides whether it should.
- A listener that throws, or removes itself, keeps the ones behind it from hearing
  of that collection (`PassedOver`): `GcHeard`.
- A message that takes longer than half a second, or the limit if that is less, takes the main
  thread down in the printer, which logs it with the unassigned logger: `EndLogged`.
- A message whose end crosses with its start is reported although it is over
  (`crossed`): a removal that comes when the start message has been taken, a start
  that is due after the end: `ReportIsTrueUnlessCrossed`.
- A listener taken away between the test and the call ends the monitor thread:
  excused in `StuckIsReported`.
- With `forceQuitAfterCrashHandled` false an uncaught exception is told and the thread
  just ends: the system's own handler has been replaced, not kept.
- Outside strict mode the threshold of the heap is the device's, and the configured one is
  not looked at (l.43-52 of `OomMonitor.kt`): a lower `heap` in the configuration
  (`OomMonitor.kt` l.262-265) changes nothing, and on 384 MB and more, where the device's is
  0.95 or 0.96, a heap beyond the default of 0.9 may be calm. (There a ratio beyond the threshold can never
  have fallen back by more than 0.05, so that this branch is never taken.) Below 192 MB
  the threshold is `oomThreshold*0.9`, a number of megabytes
  that l.72 compares with a ratio: no overload short of the forced
  one is noticed. `HeapOverThresholdNoticed` says what holds on each device: beyond 98%, and
  in strict mode beyond the configured ratio, a report; outside it, with 192 MB or more,
  beyond 96% a report or one more reading towards it.
- A listener added while the probe of listeners that were all removed still awaits
  a collection makes a second chain of probes: from then on there are two callbacks for
  every collection (`readded`), where `GcProbe.kt` l.62 speaks of one:
  `OneCallbackUnlessReadded`.
- A swelling heap is compared with the last record of anybody: a call of
  `MemInfo.get()` between two runs hides it (`own.disturbed`):
  `SwellReportedUnlessDisturbed`.
- On Android 5 the base of a library whose code does not start a page is off by the
  rest, since `map_util.hpp` l.265 takes `p_vaddr` where the comment at l.95 has
  `PAGE_START` of it (`OffPage`): `AddressIsTrue`.
- A function that an unstripped library only imports has an address nonetheless, its
  base (`OnlyImported`), where `elf_reader.h` l.68 has `nullptr` for what is not found.
- `dl_iterate_callback` takes the first library whose path contains "libart.so", that of
  the app named alike too. The runtime's own is found because it is loaded before
  anything of the app: `InitResolves`.
- `EndsWith` (`map_util.hpp` l.195-201) compares only the first place where `strstr` finds
  the name: a library whose path has it twice is loaded and not found (`NameTwice`):
  `LoadedIsFound`.
- `init_done_` is set whatever was found; on devices after U nothing is looked up.
- The main thread is told twice, once as a native thread; a runtime thread's `nativeId`
  is overwritten with -1 by `copy`, and its `isDaemon` is not copied
  (`ThreadInfo.kt` l.65-73).
- A native thread, or one that started later, may be told as the runtime thread whose
  name it passes for, and that one then as native (`Confusing`): `RuntimeThreadsAreTold`.

## 4. Fairness

- `HprofStrip`: the writing thread, the only one of the child, is scheduled. The
  disk is never obliged to recover.
- `ForkDump`: a thread that can go on does, and the alarm goes off. Nothing obliges
  a child to finish or a fault to happen. Weak fairness is enough: the lock a
  thread waits for becomes free for good after finitely many calls.
- `NativeCrash`: the set-up, the cleanup thread and every handler are scheduled.
  A paused thread need not go on, nor a wait end by itself.
- `OomMonitor`: the looper and the clients' calls go on, and the queue hands over
  every message in the end (strong fairness per monitor: handling one message
  disables the others for a while, and the queue is in the order of time).
- `GcProbe`: the finalizer thread works off its queue. No collection need happen.
- `CrashCatcher`: whoever handles a crash is scheduled. No thread has to crash.
- `StuckMonitor`: time passes, the main thread gets through the printer, and the
  monitor thread is scheduled, strongly, because it waits for a lock that the main
  thread takes and gives back. A message need not end.
- `DlFcn` and `ThreadInfo`: none is assumed, their properties are about safety.

## 5. Proofs

`HprofStripProofs`, for every set of buffers, descriptors, paths and names and for
every bound that satisfies the named assumptions of `HprofStrip`:

| Theorem | Establishes |
|---|---|
| `Invariant` | `Spec => []IInv` |
| `TypeCorrect` | `TypeOK` |
| `InSync` | `ParserInSync` |
| `StripsStayOrdered` | `StripsOrdered` |
| `StripListBounded` | `NoStripOverflow` |
| `WritesInOrder` | `OutputInOrder` |
| `OthersUntouched` | `OthersIntact` |
| `Kept` | `Spec => []KeptInv` |
| `KeptBytesWritten` | `OutputIsTheKeptBytes` |
| `LengthOfRefilledBody` | `LengthMatchesRefilledBody` |

The argument. `CodeSizes` compares, kind by kind, the size `ProcessHeap` adds up
with the one the runtime gives a sub-record (`ArtSize`, from the comments above the
cases): this is where the arithmetic is. With it, `ParseInv` is inductive: the
parser stands at a boundary, every strip ends at or before it, and there are fewer
strips than sub-records passed (`nth`, the number of the boundary). The last part is
what `NoStripOverflow` needs, and is not part of it; the middle one gives
`StripsOrdered` for the next strip. `WriteInv` relates the write loop to the list:
it stands at the end of strip `i` and has written up to `Done`, from which each new
range starts. `CallInv` and `NameInv` say that a call that parses is on the remembered
descriptor, and that this is one of the hprof's unless it is `stale`; `PassInv`, that any
other call has gone through whole. Together they give `OthersUntouched`.

`IInv` says that the strips are in order, not that they are the right ones. `KeptInv`
says that, in terms of the buffer and of `stream_heap` alone: the ranges of the strip
list are the strips (`StripOf`) of the sub-records behind the parser (`StripInv`), which needs
the parser's heap flag to be the stream's (`HeapInv`); what has been written is all
up to `Done` but for them (`WrittenInv`); and the sum, with the array values still to be
filled in again, counts their bytes (`LengthInv`). That last part compares cardinalities of unions
that grow by one range at a time, disjoint from the others because sub-records do not
overlap, which `IsBuffer` says. At the end of a write the two give
`KeptBytesWritten` and `LengthOfRefilledBody`.

`HprofDumperProofs`, for every set of requests and scenarios:

| Theorem | Establishes |
|---|---|
| `Invariant` | `Spec => []IInv` |
| `TypeCorrect` | `TypeOK` |
| `NoLockInherited` | `ChildInheritsNoLock` |
| `OneChild` | `OneChildAtATime` |
| `SuccessIsTrue` | `TrueUnlessThrown` |
| `BlockingStripsStripped` | `BlockingStripped` |
| `AllGivenBack` | `NothingLeftHeld` |

The argument. `LocksInv` says at which places of the code a thread holds each of the two
monitors. None of the properties says so, and each of them needs it: since the place of one
thread excludes places of the others, whoever could hold a lock of the runtime is
the thread that forks (`RuntimeInv`), a child is alive only while its parent is
inside (`ChildInv`), and nobody renames the file between the naming and the fork of
a blocking request (`NameInv`). `ResultInv` follows a child to its end.

`HprofDumperProofs` also has `Refinement`, `Spec => Promise`. The initial states map to the
initial state; each action of `ForkDump` is one step of `DumpService`, or none. The
lemmas `AskedFollows` and `WriterFollows` turn a change of `pc` or `child` into one of
`asked` or `writer`. `StartWriting` needs that no other child is alive at a fork, and
`Return` that a caller leaves only after its child's end: both are parts of the
invariant.

`NativeCrashProofs`, for any number of threads and signals and every scenario:

| Theorem | Establishes |
|---|---|
| `Invariant` | `Spec => []IInv` |
| `TypeCorrect` | `TypeOK` |
| `WholeReport` | `ReportIsWhole` |
| `CallbackFirst` | `SoloExitAfterCallback` |
| `OldHandlerFirst` | `SoloOldHandlerCalled` |

The argument. None of the shared state is guarded, so nothing can be said of it that
two faulting threads could not break; `disturbed` says that they have, or that a wait
has ended by itself. `BaseInv` holds in any case: who may stand where. `SoloInv` holds
as long as nothing is disturbed: one thread is in charge (`OneInv`); the report is as long
as its place in `assembleCrashInfo` (`WritingInv`); the cleanup thread is awake only once
it is written (`WokenInv`); the one in charge is awake again only once `callbackToUI` is over
(`ReturnedInv`), and has called the earlier handler before it finishes (`OldInv`). The two sides share
one condition variable. The right one is woken because only one of them waits
whenever the other notifies, which follows from `OneInv`, `WokenInv` and `ReturnedInv`
together and from none of them alone. `Onward` and `Aside` are the frame lemmas: a step
of the thread in charge, and a step of any other.

`CrashCatcherProofs`, for any number of threads and activities, has `Invariant`,
`TypeCorrect` and `StackTrue` (`StackIsLive`). The stack has the known activities, each
once, which needs `RegisteredInv` (before the registration none is known), and
`ListTheorems`: what removing an element leaves of a list without duplicates.

`GcProbeProofs`, for any number of listeners, calls and collections, has `Invariant`,
`TypeCorrect`, `ChainKept` (`ProbeKept`, that while somebody listens there is a probe)
and `OneCallback` (`OneCallbackUnlessReadded`). What a listener has heard does not bound
itself: `HeardInv` adds what it has still to hear, from the probe in the queue and
from the loop under way (`Due`), which is where its place in the list counts.

`OomMonitorProofs`, for any sets of clients and listeners, any heap and thresholds, has
`Invariant`, `EverybodyTold` (`ToldUnlessRemoved`) and `SwellReported`
(`SwellReportedUnlessDisturbed`). `TellInv`: whoever is owed the report has been told or lies
ahead of the iterator, as long as nobody was removed; `WithinInv` keeps the iterator in
the list, with the count of changes that `ArrayList` checks; `OwnInv`: the
last record is the monitor's own as long as `own` is not disturbed.

On it rest `Types` and `Chains` (`ChainInv`), and on them `OneChainEach` (`OneChainUnlessRushed`)
and `OneRunLeft` (`StopLeavesOneRun`), for any number of clients and calls. A chain of a
monitor is a message of one handler or the run under way, and there is one of each
(`OneChain`) until a start is rushed. For the end of the first start that is not enough:
between its posts and its assignment the messages belong to a handler that no `stop` can
see (`OneAssigned`), a `stop` that has read removes the messages of the one handler there
is (`Aimed`), and from then on only the run under way is left (`StoppedInv`).

`Leftovers` (`LeftInv`) carries the bound over any number of handlers, for one caller. While a
handler is in use, what the earlier ones have left (`Old`) takes one place less than the
bound: the last place is for the run which the next `stop` may find under way. `stop` then
turns "one less of the others" into "the bound of all", and `start` makes everything that is
left something of the others, one handler more. The lemmas on `Waits` say what one message
more or less does to a set of messages, those on `Small` what it does to its size. For several callers `OneRunLeft`
goes back to `ChainInv`: of the first handler one chain is left.

`OverThresholdNoticed` (`HeapOverThresholdNoticed`) holds of every device and every
configuration; the run has one of each.

`StuckMonitorProofs`, for any delay, limits, number of messages and calls that satisfy the
named assumptions of `StuckMonitor`, has `Invariant` and `ReportsAreTrue`
(`ReportIsTrueUnlessCrossed`). A message of the looper has one token: its start, which the
monitor thread turns into a timer, which it turns into a report; there is never a
second one in the queue or in the thread's hands (`QueueInv`, `TakenInv`), and none after a report
(`SentInv`), so that there is one report at most. A token is no faster than the clock
(`ElapsedInv`): the age and what is left of its delay make up the delay it was sent with, so
that a timer that goes off while the message lasts is true. For a message that has
ended (`EndedInv`), each timer that would not be true has the news of the end ahead of it in the queue, and a
start has it behind: turned into a timer, which takes longer, it comes to lie behind the news.
This is what crossing breaks, and it needs the order of the queue by delay.
The lemmas on `Send` and `RemoveMessages` reduce both to one message more or less (`Gapped`);
that a removal takes out one at most is `QueueInv` again.

`OomMonitorProofs` also has, for any set of threads with any names, `ThreadsInvariant` and
`ThreadsAreTold` (`RuntimeThreadsAreTold`). `ThreadsInv`: the two listings have each thread
once (`ListsInv`); the name read for a task is the kernel's, or the text of a failure
(`NamesInv`); an entry out of `left` was given to a task whose name passes for its own, and
a task told as native had all entries its name passes for taken by tasks before it
(`MatchInv`). Were those takers of the entries of t's name all threads of that name in the
snapshot, each entry of the name would have a taker with an entry of its own among the same
entries, a different one for each and never that of t: one entry too few. So if t is told
as native, some task is a native thread, one that came later or one of another name, and its
name passes for t's, which is what `Confusing` says.
The two assumptions it needs are that names are sequences and that no runtime thread is named
like the text of a failed read (`NamesAssumption`, `FailedAssumption`).

`HprofDumperProofs`, for every set of devices, files, names, bases and loads:

| Theorem | Establishes |
|---|---|
| `AddressesAreTrue` | `AddressIsTrue` |
| `LoadedLibrariesAreFound` | `LoadedIsFound` |
| `InitializeResolves` | `InitResolves` |

The argument has three layers. In the file: `GnuFinds` and `ElfFinds` say that a walk gives
the value of the symbol if the file exports it and 0 otherwise. For the GNU table that needs
that the exports of a bucket lie together, end with the odd word and pass the bloom filter
(`GnuBuckets`, `GnuChainWord`, `BloomWords`). In an empty bucket the walk passes over
imports, which may bear the name but have the value 0, and ends at the latest with the chain of the
first export; a file that exports nothing has an empty filter, which lets nobody in.
For the SysV table the chain leads to ever smaller numbers down to 0. The walk is a recursive
function; that it has the value its equation says is shown by giving an explicit function that satisfies the
equation, and that it is the only one by the least number where two would differ (`ElfWalks`, `LeastOf`).
`LookupFinds` puts them together with the full table. In memory: `SuffixStands` to `InfoFinds` say that a
name, by the map or by the list, finds the library whose path ends with it and the base it
was loaded at, if its code starts a page; this is where `IsLaidOut` is used. Over time: `DlInv` says
that the libraries there from the start stay in front (`LoadedInv`), that `Initialize` has the handle of
libart and the addresses of its symbols so far (`InitInv`), and that the client's handle is true until
its library is unloaded (`HandleInv`).

The assumptions on the constants: the hashes of names are numbers, bases are not below the
page size (`ConstantsAssumption`), and each device is one (`DevicesAssumption`), the device's
libart being one of its files, in memory from the start, and the first library whose
path has its name. `linker` evaluates all of them on its eleven devices.

### Only model-checked

Every invariant and action property of the passing runs is proved, and the refinement too. What stays with TLC are the liveness properties (`WriteReturns`, `DumpReturns`, `ListenerNotified`,
`CrashEndsUnlessLost`, `MonitoringGoesOn`, `OverloadReported`, `GcHeard`, `CrashesAreTold`,
`NativeCrashQuits`, `StuckIsReported`): fairness and ENABLED are beyond the prover.

`StripRequestsStripped`, `TrueMeansDumped` and `ForcedQuit` do not hold, see section 3.

## 6. Not modelled

- `FdInfo`: reads links under `/proc/self/fd` and sorts them by their text; no state,
  and nothing that runs beside it but the descriptors' coming and going, for which
  every read has its own answer. `CpuInfo` is empty.
- `MemInfo`'s reading of `/proc/meminfo` and its formatting, among it `String.format`
  without a locale (l.201), whose decimal comma in many languages `toDouble()` does
  not take: a matter of text.
- `ThreadInfo.getCount` and `toStr`; a thread's state, priority and stack.
- What stands behind the unassigned logger in `CrashCatcher.kt`; a wall clock that
  jumps while a message is timed.
- `HookInit`, which hands the hooks to xhook, and the loading of libraries by the two
  `init()` methods: done before the models start; idempotent.
- `MemoryElfWrapper` and the `.gnu_debugdata` lookup, which is commented out; ELF files
  with several sections of one kind, or with no section headers in an intact file.
- The definitions of the two ELF hash functions: any function will do for a lookup
  that is right.
- `setupAltStack`, `setBlockSignals` (never called), the texts of reports and logs. A cleanup
  thread that returns early from `callbackToUI` after attaching to the VM ends without
  detaching, which the runtime may answer with an abort: not modelled.
- A write on descriptor -1 while `hprof_fd_` is -1, which no caller makes; a record of another
  file that starts with a heap-dump tag and is not one, on a stale descriptor.
- Permissions, file contents outside the hprof, the commented-out compression.
- `DefaultLogger`, demos, build scripts, vendored code.

## 7. Plan

Done: every part above, with proofs of every invariant the passing runs check; `DumpService`
with the proof that the dumper implements it. What would follow, in this order:

1. Libraries with several executable segments, which `IsLaidOut` leaves out, and a memory map
   that changes while it is scanned.
2. Abstract specifications: a strip filter on whole streams implemented by
   `HprofStrip`; a single periodic chain implemented by `OomMonitor` as long as no
   start is rushed.
3. `HprofParse`: sub-records down to bytes for the tags and lengths.
4. The composition of `OomMonitor` with `ForkDump`: a dump asked for by a listener on
   the looper, which the monitors then wait for.
