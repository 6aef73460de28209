------------------------------- MODULE OomJudge -------------------------------
(***************************************************************************)
(* When OomMonitor's three monitors report: one reading against the        *)
(* thresholds, the reading before it and the count of readings that were   *)
(* over the threshold in a row.  A ratio is an integer, in hundredths      *)
(* (MemInfo rounds them to two decimals); memory is in MB.                 *)
(***************************************************************************)
EXTENDS Integers

CONSTANTS Config,   \* [heap, swell, system, thread, fd, strict]: class Config
          MaxHeap   \* Runtime.maxMemory(), in MB

ASSUME ConfigAssumption ==
    Config \in [heap : Int, swell : Int, system : Int, thread : Int, fd : Int, strict : BOOLEAN]
ASSUME MaxHeapAssumption == MaxHeap \in Nat \ {0}

Monitors == {"memory", "thread", "fd"}

JAVA_HEAP_FORCE_OOM_RATIO_THRESHOLD == 98
SYSTEM_MEMORY_EXHAUSTED_THRESHOLD == 95
OVER_THRESHOLD_COUNT_LIMIT == 3
JAVA_HEAP_RATIO_FALL_BACK_GAP == 5
FALL_BACK_GAP == 20

\* Mutant: a threshold for the small heaps forgotten.
RefinedThresholdTwoCases ==
    CASE MaxHeap >= 512                  -> 96
      [] MaxHeap >= 384 /\ MaxHeap < 512 -> 95
      [] OTHER                           -> MaxHeap * 90

\* The last case multiplies megabytes, where the others are ratios.
RefinedProcJavaHeapUsedRatioThreshold ==
    CASE MaxHeap >= 512                   -> 96
      [] MaxHeap >= 384 /\ MaxHeap < 512  -> 95
      [] MaxHeap >= 192 /\ MaxHeap < 384  -> 90
      [] OTHER                            -> MaxHeap * 90

JavaHeapOverflowThreshold ==
    IF Config.strict THEN Config.heap ELSE RefinedProcJavaHeapUsedRatioThreshold

\* 1 - procJavaHeapAvailableRatio, with the rounding of clip().
HeapUsedRatio(heap) == 100 - ((100 * (MaxHeap - heap)) + (MaxHeap \div 2)) \div MaxHeap

\* A verdict: the type of oom to report or "none", and whether a reading over the
\* threshold is still to be confirmed by the next ones.
Report(type) == [type |-> type, confirming |-> FALSE]
Confirming   == [type |-> "none", confirming |-> TRUE]
Calm         == [type |-> "none", confirming |-> FALSE]

\* A reading over its threshold: reported at once in strict mode, and otherwise
\* when it is the third in a row that did not fall back.
Over(type, fallen_back, n) ==
    IF Config.strict THEN Report(type)
    ELSE IF fallen_back THEN Calm
    ELSE IF n + 1 = OVER_THRESHOLD_COUNT_LIMIT THEN Report(type)
    ELSE Confirming

CountVerdict(type, count, threshold, last, n) ==
    IF count > threshold THEN Over(type, count < last - FALL_BACK_GAP, n) ELSE Calm

Least(x, y) == IF x < y THEN x ELSE y

\* Mutant: a swelling heap is looked at last.
MemoryVerdictSwellLast(mem, record, last, n) ==
    LET ratio == HeapUsedRatio(mem.heap) IN
    IF mem.sys > Least(SYSTEM_MEMORY_EXHAUSTED_THRESHOLD, Config.system)
      THEN Report("SystemMemoryExhausted")
    ELSE IF ratio > JAVA_HEAP_FORCE_OOM_RATIO_THRESHOLD THEN Report("JavaHeapOverFlow")
    ELSE IF ratio > JavaHeapOverflowThreshold
      THEN Over("JavaHeapOverFlow", ratio < last - JAVA_HEAP_RATIO_FALL_BACK_GAP, n)
    ELSE IF record # -1 /\ mem.heap - record > Config.swell THEN Report("JavaHeapSuddenlySwell")
    ELSE Calm

\* `record` is MemInfo.lastRecord's heap, or -1 if nobody has read it before.
MemoryVerdict(mem, record, last, n) ==
    LET ratio == HeapUsedRatio(mem.heap) IN
    IF mem.sys > Least(SYSTEM_MEMORY_EXHAUSTED_THRESHOLD, Config.system)
      THEN Report("SystemMemoryExhausted")
    ELSE IF ratio > JAVA_HEAP_FORCE_OOM_RATIO_THRESHOLD THEN Report("JavaHeapOverFlow")
    ELSE IF record # -1 /\ mem.heap - record > Config.swell THEN Report("JavaHeapSuddenlySwell")
    ELSE IF ratio > JavaHeapOverflowThreshold
      THEN Over("JavaHeapOverFlow", ratio < last - JAVA_HEAP_RATIO_FALL_BACK_GAP, n)
    ELSE Calm
=============================================================================
