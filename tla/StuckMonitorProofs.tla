-------------------------- MODULE StuckMonitorProofs --------------------------
(***************************************************************************)
(* Theorems about StuckMonitor: what it reports is true, and is reported   *)
(* once, for every delay, limit and number of messages.  A message of the  *)
(* looper has at most one token on its way through the monitor thread: its *)
(* start, then the timer the start is turned into, then the report.  How   *)
(* long the token has been on the way tells how long the message has taken *)
(* at least; and once the message has ended, the news of its end is ahead  *)
(* of the timer, or of what will be turned into the timer.                 *)
(***************************************************************************)
EXTENDS StuckMonitor, FiniteSetTheorems, SequenceTheorems, TLAPS

Message == [what : {STARTED, FINISHED, TIMEOUT}, obj : Msgs, due : Nat, limit : Nat]

TypeOK ==
    /\ stuckListener \in BOOLEAN /\ stuckTimeLimit \in Limits
    /\ printer \in BOOLEAN /\ sets \in Nat
    /\ main \in {"idle", "begin", "work", "end", "dead"}
    /\ count \in 0 .. MaxMsgs /\ age \in Nat /\ costTime \in Nat
    /\ queue \in Seq(Message)
    /\ monitor \in {"idle", "handle", "report", "dead"}
    /\ taken \in Message \cup {NoMessage}
    /\ ran \in [Msgs -> Nat] /\ reports \in [Msgs -> Nat]
    /\ false_alarms \subseteq Msgs /\ crossed \subseteq Msgs

Token(m) == m.what \in {STARTED, TIMEOUT}

\* The queue is in the order of the delays, the news of an end has none, and no two
\* tokens are of one message.
QueueInv(q) ==
    /\ \A j, k \in 1 .. Len(q) : j < k => q[j].due <= q[k].due
    /\ \A k \in 1 .. Len(q) : q[k].what = FINISHED => q[k].due = 0
    /\ \A j, k \in 1 .. Len(q) :
         Token(q[j]) /\ Token(q[k]) /\ q[j].obj = q[k].obj => j = k

\* The monitor thread has taken a message exactly when it is at work on one.
TakenInv ==
    /\ monitor = "idle" <=> taken = NoMessage
    /\ monitor # "idle" => taken \in Message
    /\ monitor \in {"report", "dead"} => taken.what = TIMEOUT
    /\ taken.due = 0
    /\ Token(taken) => \A k \in 1 .. Len(queue) :
         Token(queue[k]) => queue[k].obj # taken.obj

\* Messages are sent for what the looper has printed, and only one report is.
Sent(n) == n < count \/ (n = count /\ main # "begin")

SentInv ==
    /\ main \notin {"idle", "dead"} => count \in Msgs
    /\ main = "dead" => count \in crossed
    /\ \A k \in 1 .. Len(queue) : Sent(queue[k].obj)
    /\ monitor # "idle" => Sent(taken.obj)
    /\ \A n \in Msgs : reports[n] > 0 =>
         /\ Sent(n) /\ reports[n] = 1
         /\ \A k \in 1 .. Len(queue) : Token(queue[k]) => queue[k].obj # n
         /\ Token(taken) => taken.obj # n

\* A token of the message the looper is at is no faster than the clock.
Elapsed(m) ==
    /\ m.what = STARTED => age + m.due >= DELAY
    /\ m.what = TIMEOUT => age >= Old \/ age + m.due >= DELAY + m.limit

ElapsedInv ==
    main \in {"work", "end"} =>
      /\ \A k \in 1 .. Len(queue) : queue[k].obj = count => Elapsed(queue[k])
      /\ taken.obj = count => Elapsed(taken)

\* The limit a timer is set for is one of Limits.
LimitInv ==
    /\ \A k \in 1 .. Len(queue) : queue[k].limit \in Limits
    /\ monitor # "idle" => taken.limit \in Limits

IsEnd(m, n) == m.what = FINISHED /\ m.obj = n

Ended(n) == n < count \/ (n = count /\ main = "idle")

\* After the end of a message n that took r: a timer that the news of the end, taken
\* (e) or ahead of it in the queue, does not stop is true.
StoppedAhead(q, n, r, e) ==
    \A k \in 1 .. Len(q) : q[k].what = TIMEOUT /\ q[k].obj = n =>
      r > q[k].limit \/ e \/ \E j \in 1 .. Len(q) : j < k /\ IsEnd(q[j], n)

\* The start of n, not yet turned into a timer, is so before the news of the end.
StartedAhead(q, n) ==
    \A k \in 1 .. Len(q) : q[k].what = STARTED /\ q[k].obj = n =>
      \E j \in 1 .. Len(q) : k < j /\ IsEnd(q[j], n)

EndedInv ==
    \A n \in Msgs : Ended(n) /\ n \notin crossed =>
      /\ StoppedAhead(queue, n, ran[n], IsEnd(taken, n)) /\ StartedAhead(queue, n)
      /\ taken.obj = n /\ taken.what = TIMEOUT => ran[n] > taken.limit
      /\ taken.obj = n /\ taken.what = STARTED =>
           \E j \in 1 .. Len(queue) : IsEnd(queue[j], n)

IInv ==
    /\ TypeOK /\ QueueInv(queue) /\ TakenInv /\ SentInv /\ ElapsedInv /\ LimitInv /\ EndedInv
    /\ false_alarms \subseteq crossed

-----------------------------------------------------------------------------
(* Queues that differ in one message: the k-th of the longer one.          *)

Gap(i, k) == IF i < k THEN i ELSE i + 1

Gapped(long, k, short) ==
    /\ Len(long) = Len(short) + 1 /\ k \in 1 .. Len(long)
    /\ \A i \in 1 .. Len(short) : short[i] = long[Gap(i, k)]

LEMMA GapOrder ==
  ASSUME NEW n \in Nat, NEW k \in 1 .. n + 1
  PROVE  /\ \A i \in 1 .. n : Gap(i, k) \in 1 .. n + 1 /\ Gap(i, k) # k
         /\ \A i \in 1 .. n : Gap(i, k) < k <=> i < k
         /\ \A i, j \in 1 .. n : i < j <=> Gap(i, k) < Gap(j, k)
         /\ \A i, j \in 1 .. n : i = j <=> Gap(i, k) = Gap(j, k)
         /\ \A j \in 1 .. n + 1 : j # k => \E i \in 1 .. n : j = Gap(i, k)
<1>1. \A j \in 1 .. n + 1 : j < k => j \in 1 .. n /\ j = Gap(j, k)
  BY DEF Gap
<1>2. \A j \in 1 .. n + 1 : j > k => j - 1 \in 1 .. n /\ j = Gap(j - 1, k)
  BY DEF Gap
<1>3. \A j \in 1 .. n + 1 : j # k => \E i \in 1 .. n : j = Gap(i, k)
  BY <1>1, <1>2
<1> QED
  BY <1>3 DEF Gap

\* The messages of the longer queue but for the new one, and those of the shorter.
LEMMA OthersOld ==
  ASSUME NEW long \in Seq(Message), NEW short \in Seq(Message), NEW k, Gapped(long, k, short)
  PROVE  /\ Len(short) \in Nat /\ Len(long) = Len(short) + 1
         /\ \A j \in 1 .. Len(long) : j # k => \E i \in 1 .. Len(short) : long[j] = short[i]
<1>1. Len(short) \in Nat /\ Len(long) = Len(short) + 1 /\ k \in 1 .. Len(short) + 1
  BY DEF Gapped
<1>2. \A j \in 1 .. Len(long) : j # k => \E i \in 1 .. Len(short) : j = Gap(i, k)
  BY <1>1, GapOrder
<1> QED
  BY <1>1, <1>2 DEF Gapped

LEMMA OldKept ==
  ASSUME NEW long \in Seq(Message), NEW short \in Seq(Message), NEW k, Gapped(long, k, short)
  PROVE  \A i \in 1 .. Len(short) :
           \E j \in 1 .. Len(long) : j # k /\ short[i] = long[j]
<1>1. Len(short) \in Nat /\ Len(long) = Len(short) + 1 /\ k \in 1 .. Len(short) + 1
  BY DEF Gapped
<1>2. \A i \in 1 .. Len(short) : Gap(i, k) \in 1 .. Len(long) /\ Gap(i, k) # k
  BY <1>1, GapOrder
<1> QED
  BY <1>2 DEF Gapped

\* The shorter queue is as good as the longer one.
LEMMA ShortQueueInv ==
  ASSUME NEW long \in Seq(Message), NEW short \in Seq(Message), NEW k,
         Gapped(long, k, short), QueueInv(long)
  PROVE  QueueInv(short)
<1> DEFINE n == Len(short)
           g(i) == Gap(i, k)
<1>1. n \in Nat /\ Len(long) = n + 1 /\ k \in 1 .. n + 1
  BY DEF Gapped
<1>2. \A i \in 1 .. n : short[i] = long[g(i)] /\ g(i) \in 1 .. n + 1
  BY <1>1, GapOrder DEF Gapped
<1>3. /\ \A i, j \in 1 .. n : i < j => g(i) < g(j)
      /\ \A i, j \in 1 .. n : g(i) = g(j) => i = j
  <2>1. \A i, j \in 1 .. n : i < j <=> g(i) < g(j)
    BY <1>1, GapOrder
  <2>2. \A i, j \in 1 .. n : i = j <=> g(i) = g(j)
    BY <1>1, GapOrder
  <2> QED
    BY <2>1, <2>2
<1> HIDE DEF n, g
<1>4. \A i, j \in 1 .. n : i < j => short[i].due <= short[j].due
  BY <1>1, <1>2, <1>3 DEF QueueInv
<1>5. \A i \in 1 .. n : short[i].what = FINISHED => short[i].due = 0
  BY <1>1, <1>2 DEF QueueInv
<1>6. \A i, j \in 1 .. n :
        Token(short[i]) /\ Token(short[j]) /\ short[i].obj = short[j].obj => i = j
  BY <1>1, <1>2, <1>3 DEF QueueInv
<1> QED
  BY <1>4, <1>5, <1>6 DEF QueueInv, n

\* The longer one is if the new message is where its delay belongs, and no second
\* token of its message.
LEMMA LongQueueInv ==
  ASSUME NEW long \in Seq(Message), NEW short \in Seq(Message), NEW k,
         Gapped(long, k, short), QueueInv(short),
         \A i \in 1 .. Len(short) : i < k => short[i].due <= long[k].due,
         \A i \in 1 .. Len(short) : i >= k => long[k].due <= short[i].due,
         long[k].what = FINISHED => long[k].due = 0,
         Token(long[k]) => \A i \in 1 .. Len(short) : Token(short[i]) => short[i].obj # long[k].obj
  PROVE  QueueInv(long)
<1> DEFINE n == Len(short)
           g(i) == Gap(i, k)
<1>1. n \in Nat /\ Len(long) = n + 1 /\ k \in 1 .. n + 1
  BY DEF Gapped
<1>2. \A i \in 1 .. n : short[i] = long[g(i)]
  BY <1>1 DEF Gapped
<1>3. /\ \A i, j \in 1 .. n : g(i) < g(j) => i < j
      /\ \A i \in 1 .. n : (g(i) < k <=> i < k) /\ g(i) # k /\ g(i) \in 1 .. n + 1
      /\ \A j \in 1 .. n + 1 : j # k => \E i \in 1 .. n : j = g(i)
  BY <1>1, GapOrder
<1> HIDE DEF n, g
<1>4. \A i, j \in 1 .. n + 1 : i < j => long[i].due <= long[j].due
  <2> TAKE i, j \in 1 .. n + 1
  <2> HAVE i < j
  <2>1. CASE i = k
    <3>1. PICK y \in 1 .. n : j = g(y)
      BY <1>1, <1>3, <2>1
    <3>2. y >= k
      BY <1>1, <1>3, <2>1, <3>1
    <3> QED
      BY <1>2, <2>1, <3>1, <3>2 DEF n
  <2>2. CASE j = k
    <3>1. PICK x \in 1 .. n : i = g(x)
      BY <1>1, <1>3, <2>2
    <3>2. x < k
      BY <1>3, <2>2, <3>1
    <3> QED
      BY <1>2, <2>2, <3>1, <3>2 DEF n
  <2>3. CASE i # k /\ j # k
    <3>1. PICK x \in 1 .. n, y \in 1 .. n : i = g(x) /\ j = g(y)
      BY <1>3, <2>3
    <3>2. x < y
      BY <1>3, <3>1
    <3> QED
      BY <1>2, <3>1, <3>2 DEF n, QueueInv
  <2> QED
    BY <2>1, <2>2, <2>3
<1>5. \A j \in 1 .. n + 1 : long[j].what = FINISHED => long[j].due = 0
  BY <1>2, <1>3 DEF n, QueueInv
<1>6. \A i, j \in 1 .. n + 1 :
        Token(long[i]) /\ Token(long[j]) /\ long[i].obj = long[j].obj => i = j
  <2> TAKE i, j \in 1 .. n + 1
  <2> HAVE Token(long[i]) /\ Token(long[j]) /\ long[i].obj = long[j].obj
  <2>1. CASE i # k /\ j # k
    <3>1. PICK x \in 1 .. n, y \in 1 .. n : i = g(x) /\ j = g(y)
      BY <1>3, <2>1
    <3> QED
      BY <1>2, <3>1 DEF n, QueueInv
  <2>2. CASE i = k /\ j # k
    BY <1>2, <1>3, <2>2 DEF n
  <2>3. CASE i # k /\ j = k
    BY <1>2, <1>3, <2>3 DEF n
  <2> QED
    BY <2>1, <2>2, <2>3
<1> QED
  BY <1>1, <1>4, <1>5, <1>6 DEF QueueInv

\* A message taken out that is not the news of the end of n changes nothing for n.
LEMMA ShortEnded ==
  ASSUME NEW long \in Seq(Message), NEW short \in Seq(Message), NEW k,
         Gapped(long, k, short), NEW n, ~IsEnd(long[k], n)
  PROVE  /\ \A r, e : StoppedAhead(long, n, r, e) => StoppedAhead(short, n, r, e)
         /\ StartedAhead(long, n) => StartedAhead(short, n)
<1> DEFINE len == Len(short)
           g(i) == Gap(i, k)
<1>1. len \in Nat /\ Len(long) = len + 1 /\ k \in 1 .. len + 1
  BY DEF Gapped
<1>2. \A i \in 1 .. len : short[i] = long[g(i)]
  BY <1>1 DEF Gapped
<1>3. /\ \A i, j \in 1 .. len : g(i) < g(j) => i < j
      /\ \A i \in 1 .. len : g(i) \in 1 .. len + 1
      /\ \A j \in 1 .. len + 1 : j # k => \E i \in 1 .. len : j = g(i)
  BY <1>1, GapOrder
<1> HIDE DEF len, g
<1>4. ASSUME NEW r, NEW e, StoppedAhead(long, n, r, e) PROVE StoppedAhead(short, n, r, e)
  <2> SUFFICES ASSUME NEW i \in 1 .. len, short[i].what = TIMEOUT /\ short[i].obj = n,
                      ~(r > short[i].limit), ~e
               PROVE  \E j \in 1 .. len : j < i /\ IsEnd(short[j], n)
    BY DEF StoppedAhead, len
  <2>1. PICK y \in 1 .. len + 1 : y < g(i) /\ IsEnd(long[y], n)
    BY <1>1, <1>2, <1>3, <1>4 DEF StoppedAhead
  <2>2. PICK x \in 1 .. len : y = g(x)
    BY <1>3, <2>1
  <2> QED
    BY <1>2, <1>3, <2>1, <2>2
<1>5. ASSUME StartedAhead(long, n) PROVE StartedAhead(short, n)
  <2> SUFFICES ASSUME NEW i \in 1 .. len, short[i].what = STARTED /\ short[i].obj = n
               PROVE  \E j \in 1 .. len : i < j /\ IsEnd(short[j], n)
    BY DEF StartedAhead, len
  <2>1. PICK y \in 1 .. len + 1 : g(i) < y /\ IsEnd(long[y], n)
    BY <1>1, <1>2, <1>3, <1>5 DEF StartedAhead
  <2>2. PICK x \in 1 .. len : y = g(x)
    BY <1>3, <2>1
  <2> QED
    BY <1>2, <1>3, <2>1, <2>2
<1> QED
  BY <1>4, <1>5

\* Nor does a message put in, unless it is a token of n.
LEMMA LongEnded ==
  ASSUME NEW long \in Seq(Message), NEW short \in Seq(Message), NEW k,
         Gapped(long, k, short), NEW n
  PROVE  /\ \A r, e :
              /\ StoppedAhead(short, n, r, e)
              /\ long[k].what = TIMEOUT /\ long[k].obj = n =>
                   r > long[k].limit \/ e \/ \E j \in 1 .. Len(long) : j < k /\ IsEnd(long[j], n)
              => StoppedAhead(long, n, r, e)
         /\ StartedAhead(short, n) /\ (long[k].what = STARTED => long[k].obj # n)
              => StartedAhead(long, n)
<1> DEFINE len == Len(short)
           g(i) == Gap(i, k)
<1>1. len \in Nat /\ Len(long) = len + 1 /\ k \in 1 .. len + 1
  BY DEF Gapped
<1>2. \A i \in 1 .. len : short[i] = long[g(i)]
  BY <1>1 DEF Gapped
<1>3. /\ \A i, j \in 1 .. len : i < j => g(i) < g(j)
      /\ \A i \in 1 .. len : g(i) \in 1 .. len + 1
      /\ \A j \in 1 .. len + 1 : j # k => \E i \in 1 .. len : j = g(i)
  BY <1>1, GapOrder
<1> HIDE DEF len, g
<1>4. ASSUME NEW r, NEW e, StoppedAhead(short, n, r, e),
             long[k].what = TIMEOUT /\ long[k].obj = n =>
               r > long[k].limit \/ e \/ \E j \in 1 .. Len(long) : j < k /\ IsEnd(long[j], n)
      PROVE  StoppedAhead(long, n, r, e)
  <2> SUFFICES ASSUME NEW y \in 1 .. len + 1, long[y].what = TIMEOUT /\ long[y].obj = n,
                      ~(r > long[y].limit), ~e
               PROVE  \E j \in 1 .. len + 1 : j < y /\ IsEnd(long[j], n)
    BY <1>1 DEF StoppedAhead
  <2>1. CASE y = k
    BY <1>1, <1>4, <2>1
  <2>2. CASE y # k
    <3>1. PICK i \in 1 .. len : y = g(i)
      BY <1>3, <2>2
    <3>2. PICK x \in 1 .. len : x < i /\ IsEnd(short[x], n)
      BY <1>2, <1>4, <3>1 DEF StoppedAhead, len
    <3> QED
      BY <1>2, <1>3, <3>1, <3>2
  <2> QED
    BY <2>1, <2>2
<1>5. ASSUME StartedAhead(short, n), long[k].what = STARTED => long[k].obj # n
      PROVE  StartedAhead(long, n)
  <2> SUFFICES ASSUME NEW y \in 1 .. len + 1, long[y].what = STARTED /\ long[y].obj = n
               PROVE  \E j \in 1 .. len + 1 : y < j /\ IsEnd(long[j], n)
    BY <1>1 DEF StartedAhead
  <2>1. PICK i \in 1 .. len : y = g(i)
    BY <1>3, <1>5
  <2>2. PICK x \in 1 .. len : i < x /\ IsEnd(short[x], n)
    BY <1>2, <1>5, <2>1 DEF StartedAhead, len
  <2> QED
    BY <1>2, <1>3, <2>1, <2>2
<1> QED
  BY <1>4, <1>5

-----------------------------------------------------------------------------
(* What the handler's operations do to a queue.                            *)

LEMMA Taking ==
  ASSUME NEW q \in Seq(Message), q # <<>>
  PROVE  Tail(q) \in Seq(Message) /\ Gapped(q, 1, Tail(q)) /\ Head(q) = q[1] /\ q[1] \in Message
<1>1. /\ Len(q) \in Nat \ {0} /\ Len(Tail(q)) = Len(q) - 1 /\ Tail(q) \in Seq(Message)
      /\ \A i \in 1 .. Len(Tail(q)) : Tail(q)[i] = q[i + 1]
  OBVIOUS
<1>2. \A i \in 1 .. Len(Tail(q)) : Gap(i, 1) = i + 1
  BY <1>1 DEF Gap
<1> QED
  BY <1>1, <1>2 DEF Gapped

\* InsertAt opens a gap.
LEMMA GapOpened ==
  ASSUME NEW q \in Seq(Message), NEW k \in 1 .. Len(q) + 1, NEW m \in Message
  PROVE  /\ InsertAt(q, k, m) \in Seq(Message)
         /\ Gapped(InsertAt(q, k, m), k, q) /\ InsertAt(q, k, m)[k] = m
<1> DEFINE front == SubSeq(q, 1, k - 1)
           back  == SubSeq(q, k, Len(q))
           mid   == front \o <<m>>
           new   == mid \o back
<1>1. front \in Seq(Message) /\ Len(front) = k - 1 /\ \A i \in 1 .. k - 1 : front[i] = q[i]
  OBVIOUS
<1>2. /\ back \in Seq(Message) /\ Len(back) = Len(q) - (k - 1)
      /\ \A i \in 1 .. Len(q) - (k - 1) : back[i] = q[(k - 1) + i]
  OBVIOUS
<1>3. /\ mid \in Seq(Message) /\ Len(mid) = k /\ mid[k] = m
      /\ \A i \in 1 .. k - 1 : mid[i] = front[i]
  <2> HIDE DEF front
  <2>1. <<m>> \in Seq(Message) /\ Len(<<m>>) = 1 /\ <<m>>[1] = m
    OBVIOUS
  <2>2. /\ mid \in Seq(Message) /\ Len(mid) = Len(front) + Len(<<m>>)
        /\ \A i \in 1 .. Len(front) + Len(<<m>>) :
             mid[i] = IF i <= Len(front) THEN front[i] ELSE <<m>>[i - Len(front)]
    BY <1>1, <2>1, ConcatProperties
  <2> QED
    BY <1>1, <2>1, <2>2
<1> HIDE DEF front, mid
<1>4. /\ new \in Seq(Message) /\ Len(new) = Len(q) + 1
      /\ \A i \in 1 .. k : new[i] = mid[i]
      /\ \A i \in k + 1 .. Len(q) + 1 : new[i] = back[i - k]
  <2> HIDE DEF back
  <2>1. /\ new \in Seq(Message) /\ Len(new) = Len(mid) + Len(back)
        /\ \A i \in 1 .. Len(mid) + Len(back) :
             new[i] = IF i <= Len(mid) THEN mid[i] ELSE back[i - Len(mid)]
    BY <1>2, <1>3, ConcatProperties
  <2> QED
    BY <1>2, <1>3, <2>1
<1>5. InsertAt(q, k, m) = new
  BY DEF InsertAt, mid, front
<1> HIDE DEF back, new
<1>6. \A i \in 1 .. Len(q) : q[i] = new[Gap(i, k)]
  <2> TAKE i \in 1 .. Len(q)
  <2>1. CASE i < k
    <3>1. i \in 1 .. k - 1 /\ i \in 1 .. k /\ Gap(i, k) = i
      BY <2>1 DEF Gap
    <3> QED
      BY <3>1, <1>1, <1>3, <1>4
  <2>2. CASE i >= k
    <3>1. i + 1 \in k + 1 .. Len(q) + 1 /\ (i + 1) - k \in 1 .. Len(q) - (k - 1)
          /\ (k - 1) + ((i + 1) - k) = i
      BY <2>2
    <3>2. new[i + 1] = back[(i + 1) - k]
      BY <1>4, <3>1
    <3>3. back[(i + 1) - k] = q[i]
      BY <1>2, <3>1
    <3> QED
      BY <2>2, <3>2, <3>3 DEF Gap
  <2> QED
    BY <2>1, <2>2
<1> QED
  BY <1>3, <1>4, <1>5, <1>6 DEF Gapped

\* A finite set of numbers that is not empty has a least one.
LEMMA MinOfPlaces ==
  ASSUME NEW n \in Nat, NEW S, S \subseteq 1 .. n, S # {}
  PROVE  Min(S) \in S /\ \A x \in S : Min(S) <= x
<1>1. \E x \in S : \A y \in S : x <= y
  <2>1. S \in SUBSET Nat
    OBVIOUS
  <2>2. PICK x \in S : \A y \in S : <<y, x>> \notin OpToRel(<, Nat)
    BY <2>1, WFMin, NatLessThanWellFounded, Zenon
  <2>3. \A y \in S : y \in Nat /\ x \in Nat /\ ~(y < x)
    BY <2>1, <2>2, Zenon DEF OpToRel
  <2> QED
    BY <2>3
<1> QED
  BY <1>1 DEF Min

LEMMA Sending ==
  ASSUME NEW q \in Seq(Message), QueueInv(q), NEW what \in {STARTED, FINISHED, TIMEOUT},
         NEW obj \in Msgs, NEW due \in Nat, stuckTimeLimit \in Nat
  PROVE  \E k \in 1 .. Len(q) + 1 :
           LET new == Send(q, what, obj, due)
           IN /\ new \in Seq(Message) /\ Gapped(new, k, q)
              /\ new[k] = [what |-> what, obj |-> obj, due |-> due, limit |-> stuckTimeLimit]
              /\ \A i \in 1 .. Len(q) : i < k <=> q[i].due <= due
<1> DEFINE later == {k \in DOMAIN q : q[k].due > due}
           at    == IF later = {} THEN Len(q) + 1 ELSE Min(later)
           m     == [what |-> what, obj |-> obj, due |-> due, limit |-> stuckTimeLimit]
<1>1. m \in Message
  BY DEF Message
<1>2. Send(q, what, obj, due) = InsertAt(q, at, m)
  BY Zenon DEF Send
<1>3. \A i \in 1 .. Len(q) : q[i].due \in Nat
  <2>1. \A i \in 1 .. Len(q) : q[i] \in Message
    OBVIOUS
  <2> QED
    BY <2>1 DEF Message
<1>4. at \in 1 .. Len(q) + 1 /\ \A i \in 1 .. Len(q) : i < at <=> q[i].due <= due
  <2>1. CASE later = {}
    BY <1>3, <2>1
  <2>2. CASE later # {}
    <3>1. at \in later /\ \A i \in later : at <= i
      <4>1. later \subseteq 1 .. Len(q) /\ Len(q) \in Nat /\ at = Min(later)
        BY <2>2
      <4> HIDE DEF later, at
      <4> QED
        BY <2>2, <4>1, MinOfPlaces
    <3>2. \A i, j \in 1 .. Len(q) : i < j => q[i].due <= q[j].due
      BY DEF QueueInv
    <3> HIDE DEF at
    <3> QED
      BY <1>3, <3>1, <3>2
  <2> QED
    BY <2>1, <2>2
<1> HIDE DEF at, m
<1>5. /\ InsertAt(q, at, m) \in Seq(Message)
      /\ Gapped(InsertAt(q, at, m), at, q) /\ InsertAt(q, at, m)[at] = m
  BY <1>1, <1>4, GapOpened
<1> QED
  BY <1>2, <1>4, <1>5 DEF m

\* All but one of the places of a queue.
LEMMA PlacesButOne ==
  ASSUME NEW n \in Nat, NEW k \in 1 .. n + 1
  PROVE  LET S == (1 .. (n + 1)) \ {k}
         IN Cardinality(S) = n /\ \A i \in 1 .. n : Nth(S, i) = Gap(i, k)
<1> DEFINE S == (1 .. (n + 1)) \ {k}
           rank(x) == Cardinality({j \in S : j <= x})
<1>1. \A m \in 0 .. n + 1 : IsFiniteSet(1 .. m) /\ Cardinality(1 .. m) = m
  <2> TAKE m \in 0 .. n + 1
  <2>1. 1 \in Int /\ m \in Int
    OBVIOUS
  <2>2. IsFiniteSet(1 .. m) /\ Cardinality(1 .. m) = IF 1 > m THEN 0 ELSE m - 1 + 1
    BY <2>1, FS_Interval
  <2> QED
    BY <2>2
<1>2. \A x \in 1 .. n + 1 : x < k => rank(x) = x
  <2> TAKE x \in 1 .. n + 1
  <2> HAVE x < k
  <2>1. {j \in S : j <= x} = 1 .. x
    OBVIOUS
  <2>2. x \in 0 .. n + 1
    OBVIOUS
  <2> QED
    BY <1>1, <2>1, <2>2
<1>3. \A x \in 1 .. n + 1 : x > k => rank(x) = x - 1
  <2> TAKE x \in 1 .. n + 1
  <2> HAVE x > k
  <2>1. {j \in S : j <= x} = (1 .. x) \ {k}
    OBVIOUS
  <2>2. x \in 0 .. n + 1 /\ k \in 1 .. x
    OBVIOUS
  <2>3. IsFiniteSet(1 .. x) /\ Cardinality(1 .. x) = x
    BY <1>1, <2>2
  <2>4. Cardinality((1 .. x) \ {k}) = Cardinality(1 .. x) - 1
    BY <2>2, <2>3, FS_RemoveElement
  <2> QED
    BY <2>1, <2>3, <2>4
<1>4. Cardinality(S) = n
  <2>1. n + 1 \in 0 .. n + 1
    OBVIOUS
  <2>2. IsFiniteSet(1 .. (n + 1)) /\ Cardinality(1 .. (n + 1)) = n + 1
    BY <1>1, <2>1
  <2>3. Cardinality((1 .. (n + 1)) \ {k}) = Cardinality(1 .. (n + 1)) - 1
    BY <2>2, FS_RemoveElement
  <2> QED
    BY <2>2, <2>3
<1> HIDE DEF rank
<1>5. ASSUME NEW i \in 1 .. n PROVE Nth(S, i) = Gap(i, k)
  <2>1. Gap(i, k) \in S /\ rank(Gap(i, k)) = i
    BY <1>2, <1>3 DEF Gap
  <2>2. \A x \in S : rank(x) = i => x = Gap(i, k)
    BY <1>2, <1>3 DEF Gap
  <2>3. Nth(S, i) = CHOOSE x \in S : rank(x) = i
    BY DEF Nth, rank
  <2> HIDE DEF S
  <2> QED
    BY <2>1, <2>2, <2>3
<1> QED
  BY <1>4, <1>5

\* All of the places.
LEMMA AllPlaces ==
  ASSUME NEW n \in Nat
  PROVE  Cardinality(1 .. n) = n /\ \A i \in 1 .. n : Nth(1 .. n, i) = i
<1>1. \A m \in 0 .. n : Cardinality(1 .. m) = m
  <2> TAKE m \in 0 .. n
  <2>1. 1 \in Int /\ m \in Int
    OBVIOUS
  <2>2. IsFiniteSet(1 .. m) /\ Cardinality(1 .. m) = IF 1 > m THEN 0 ELSE m - 1 + 1
    BY <2>1, FS_Interval
  <2> QED
    BY <2>2
<1>2. \A x \in 1 .. n : Cardinality({j \in 1 .. n : j <= x}) = x
  <2> TAKE x \in 1 .. n
  <2>1. {j \in 1 .. n : j <= x} = 1 .. x
    OBVIOUS
  <2>2. x \in 0 .. n
    OBVIOUS
  <2> QED
    BY <1>1, <2>1, <2>2
<1>3. ASSUME NEW i \in 1 .. n PROVE Nth(1 .. n, i) = i
  BY <1>2 DEF Nth
<1> QED
  BY <1>1, <1>3

\* removeMessages takes the only token there can be out of the queue.
LEMMA Removing ==
  ASSUME NEW q \in Seq(Message), QueueInv(q), NEW what \in {STARTED, TIMEOUT}, NEW obj
  PROVE  LET new == RemoveMessages(q, what, obj)
             Match(m) == m.what = what /\ m.obj = obj
         IN /\ new \in Seq(Message)
            /\ \/ new = q /\ \A k \in 1 .. Len(q) : ~Match(q[k])
               \/ \E k \in 1 .. Len(q) : Match(q[k]) /\ Gapped(q, k, new)
            /\ \A k \in 1 .. Len(new) : ~Match(new[k])
<1> DEFINE new == RemoveMessages(q, what, obj)
           Match(m) == m.what = what /\ m.obj = obj
           kept == {k \in 1 .. Len(q) : ~Match(q[k])}
<1>1. new = [n \in 1 .. Cardinality(kept) |-> q[Nth(kept, n)]]
  <2>1. DOMAIN q = 1 .. Len(q)
    OBVIOUS
  <2> QED
    BY <2>1, Zenon DEF RemoveMessages
<1>2. \A j, k \in 1 .. Len(q) : Match(q[j]) /\ Match(q[k]) => j = k
  BY DEF QueueInv, Token
<1>3. CASE \A k \in 1 .. Len(q) : ~Match(q[k])
  <2>1. kept = 1 .. Len(q) /\ Len(q) \in Nat
    BY <1>3
  <2>2. new = [n \in 1 .. Len(q) |-> q[n]]
    <3>1. Cardinality(kept) = Len(q) /\ \A i \in 1 .. Len(q) : Nth(kept, i) = i
      BY <2>1, AllPlaces
    <3> HIDE DEF kept, new
    <3> QED
      BY <1>1, <3>1
  <2>3. new = q
    BY <2>2
  <2> QED
    BY <1>3, <2>3
<1>4. CASE \E k \in 1 .. Len(q) : Match(q[k])
  <2>1. PICK k \in 1 .. Len(q) : Match(q[k])
    BY <1>4
  <2> DEFINE n == Len(q) - 1
  <2>2. n \in Nat /\ k \in 1 .. n + 1 /\ Len(q) = n + 1
    OBVIOUS
  <2>3. kept = (1 .. (n + 1)) \ {k}
    BY <1>2, <2>1, <2>2
  <2> HIDE DEF n, kept, new, Match
  <2>4. Cardinality(kept) = n /\ \A i \in 1 .. n : Nth(kept, i) = Gap(i, k)
    BY <2>2, <2>3, PlacesButOne
  <2>5. \A i \in 1 .. n : Gap(i, k) \in 1 .. n + 1 /\ Gap(i, k) # k
    BY <2>2, GapOrder
  <2>6. new = [i \in 1 .. n |-> q[Gap(i, k)]]
    BY <1>1, <2>4
  <2>7. new \in Seq(Message) /\ Len(new) = n /\ \A i \in 1 .. n : new[i] = q[Gap(i, k)]
    BY <2>2, <2>5, <2>6
  <2>8. Gapped(q, k, new)
    BY <2>2, <2>7 DEF Gapped
  <2>9. \A i \in 1 .. Len(new) : ~Match(new[i])
    BY <1>2, <2>1, <2>2, <2>5, <2>7
  <2> QED
    BY <2>1, <2>7, <2>8, <2>9 DEF new, Match
<1> QED
  BY <1>3, <1>4

-----------------------------------------------------------------------------
(* Every step keeps the invariant.                                         *)

LEMMA Messages ==
  ASSUME TypeOK
  PROVE  /\ Len(queue) \in Nat
         /\ \A k \in 1 .. Len(queue) :
              /\ queue[k] \in Message
              /\ queue[k].what \in {STARTED, FINISHED, TIMEOUT} /\ queue[k].obj \in Msgs
              /\ queue[k].due \in Nat /\ queue[k].limit \in Nat
<1>1. \A k \in 1 .. Len(queue) : queue[k] \in Message
  BY DEF TypeOK
<1> QED
  BY <1>1, SMTT(30) DEF TypeOK, Message

LEMMA Kinds ==
  /\ STARTED # FINISHED /\ STARTED # TIMEOUT /\ FINISHED # TIMEOUT
  /\ NoMessage.what = "none" /\ NoMessage.obj = 0 /\ NoMessage.due = 0
  /\ ~Token(NoMessage) /\ \A n : ~IsEnd(NoMessage, n)
BY DEF STARTED, FINISHED, TIMEOUT, NoMessage, Token, IsEnd

\* What is on its way has been sent, for a message of the looper.
LEMMA OnTheWay ==
  ASSUME IInv
  PROVE  /\ TypeOK /\ queue \in Seq(Message) /\ Len(queue) \in Nat /\ count \in Nat /\ age \in Nat
         /\ stuckTimeLimit \in Nat /\ stuckTimeLimit \in Limits /\ Msgs \subseteq Nat
         /\ \A k \in 1 .. Len(queue) :
              /\ queue[k] \in Message /\ queue[k].what \in {STARTED, FINISHED, TIMEOUT}
              /\ queue[k].obj \in Msgs /\ queue[k].due \in Nat /\ queue[k].limit \in Nat
              /\ Sent(queue[k].obj)
         /\ monitor # "idle" =>
              /\ taken \in Message /\ taken.what \in {STARTED, FINISHED, TIMEOUT}
              /\ taken.obj \in Msgs /\ taken.limit \in Nat /\ Sent(taken.obj)
         /\ monitor = "idle" => taken.obj = 0 /\ taken.what = "none"
<1>1. TypeOK
  BY DEF IInv
<1>2. /\ \A k \in 1 .. Len(queue) :
           /\ queue[k] \in Message /\ queue[k].what \in {STARTED, FINISHED, TIMEOUT}
           /\ queue[k].obj \in Msgs /\ queue[k].due \in Nat /\ queue[k].limit \in Nat
      /\ Len(queue) \in Nat
  BY <1>1, Messages
<1>3. monitor # "idle" => taken \in Message
  BY DEF IInv, TakenInv
<1>4. \A m \in Message : m.what \in {STARTED, FINISHED, TIMEOUT} /\ m.obj \in Msgs /\ m.limit \in Nat
  BY DEF Message
<1>5. /\ \A k \in 1 .. Len(queue) : Sent(queue[k].obj)
      /\ monitor # "idle" => Sent(taken.obj)
  BY DEF IInv, SentInv
<1>6. monitor = "idle" => taken.obj = 0 /\ taken.what = "none"
  BY Kinds DEF IInv, TakenInv
<1>7. stuckTimeLimit \in Nat /\ Msgs \subseteq Nat /\ count \in Nat
  BY <1>1, LimitsAssumption, BoundsAssumption DEF TypeOK, Msgs
<1> QED
  BY <1>1, <1>2, <1>3, <1>4, <1>5, <1>6, <1>7 DEF TypeOK

LEMMA InitInv == Init => IInv
<1> SUFFICES ASSUME Init PROVE IInv
  OBVIOUS
<1>1. TypeOK
  <2>1. <<>> \in Seq(Message) /\ 0 \in 0 .. MaxMsgs
    BY BoundsAssumption
  <2>2. [m \in Msgs |-> 0] \in [Msgs -> Nat]
    OBVIOUS
  <2> QED
    BY <2>1, <2>2 DEF Init, TypeOK
<1>2. Len(queue) = 0 /\ taken = NoMessage /\ main = "idle" /\ count = 0 /\ monitor = "idle"
  BY DEF Init
<1>3. QueueInv(queue) /\ TakenInv /\ SentInv /\ ElapsedInv /\ LimitInv
  BY <1>2, Kinds DEF Init, QueueInv, TakenInv, SentInv, ElapsedInv, LimitInv
<1>4. EndedInv
  BY <1>2 DEF EndedInv, Ended, Msgs
<1> QED
  BY <1>1, <1>3, <1>4 DEF Init, IInv

\* The setting is no part of the argument.
LEMMA SettingStep == ASSUME IInv, SetListener \/ SetPrinter \/ UNCHANGED vars PROVE IInv'
<1> USE DEF SetListener, SetPrinter, setting, looper, thread, history, vars
<1>1. UNCHANGED <<main, count, age, costTime, queue, monitor, taken, lock, ran, reports,
                  false_alarms, crossed>>
  OBVIOUS
<1>2. TypeOK'
  BY <1>1 DEF IInv, TypeOK
<1>3. QueueInv(queue)' /\ TakenInv' /\ LimitInv'
  BY <1>1 DEF IInv, QueueInv, TakenInv, LimitInv
<1>4. SentInv' /\ ElapsedInv'
  BY <1>1 DEF IInv, SentInv, Sent, ElapsedInv, Elapsed
<1>5. EndedInv'
  BY <1>1 DEF IInv, EndedInv, Ended, StoppedAhead, StartedAhead
<1> QED
  BY <1>1, <1>2, <1>3, <1>4, <1>5 DEF IInv

LEMMA DispatchingStep == ASSUME IInv, Dispatching PROVE IInv'
<1>1. /\ main = "idle" /\ main' = "begin" /\ count' = count + 1 /\ count < MaxMsgs
      /\ age' = 0
      /\ UNCHANGED <<stuckListener, stuckTimeLimit, printer, sets, costTime, queue, monitor,
                     taken, ran, reports, false_alarms, crossed>>
  BY DEF Dispatching, setting, thread, history
<1>2. TypeOK /\ count \in Nat /\ MaxMsgs \in Nat /\ count' \in Msgs
  BY <1>1, BoundsAssumption DEF IInv, TypeOK, Msgs
<1>3. TypeOK'
  BY <1>1, <1>2 DEF TypeOK, Msgs
<1>4. QueueInv(queue)' /\ TakenInv' /\ LimitInv'
  BY <1>1 DEF IInv, QueueInv, TakenInv, LimitInv
<1>5. \A n \in Msgs : Sent(n) => Sent(n)'
  BY <1>1, <1>2 DEF Sent, Msgs
<1>6. /\ \A k \in 1 .. Len(queue) : queue[k].obj \in Msgs
      /\ monitor # "idle" => taken.obj \in Msgs
  BY <1>2, Messages DEF IInv, TakenInv, Message
<1>7. SentInv'
  BY <1>1, <1>2, <1>5, <1>6 DEF IInv, SentInv
<1>8. ElapsedInv'
  BY <1>1 DEF ElapsedInv
<1>9. \A n \in Msgs : Ended(n)' => Ended(n)
  BY <1>1, <1>2 DEF Ended, Msgs
<1>10. EndedInv'
  BY <1>1, <1>9 DEF IInv, EndedInv, StoppedAhead, StartedAhead
<1> QED
  BY <1>1, <1>3, <1>4, <1>7, <1>8, <1>10 DEF IInv

\* The start of the message is sent: its token.
LEMMA SendStartedStep == ASSUME IInv, SendStarted PROVE IInv'
<1>1. /\ main = "begin" /\ main' = "work"
      /\ queue' = Send(queue, STARTED, count, DELAY)
      /\ UNCHANGED <<stuckListener, stuckTimeLimit, printer, sets, count, age, costTime, monitor,
                     taken, ran, reports, false_alarms, crossed>>
  BY DEF SendStarted, setting, thread, history
<1>2. /\ TypeOK /\ QueueInv(queue) /\ count \in Msgs /\ DELAY \in Nat /\ stuckTimeLimit \in Nat
      /\ stuckTimeLimit \in Limits /\ age \in Nat
  BY <1>1, DelaysAssumption, LimitsAssumption DEF IInv, TypeOK, SentInv
<1>3. queue \in Seq(Message)
  BY <1>2 DEF TypeOK
<1>4. PICK at \in 1 .. Len(queue) + 1 :
        /\ queue' \in Seq(Message) /\ Gapped(queue', at, queue)
        /\ queue'[at] = [what |-> STARTED, obj |-> count, due |-> DELAY, limit |-> stuckTimeLimit]
        /\ \A i \in 1 .. Len(queue) : i < at <=> queue[i].due <= DELAY
  BY <1>1, <1>2, <1>3, Sending
<1>5. /\ queue'[at].what = STARTED /\ queue'[at].obj = count /\ queue'[at].due = DELAY
      /\ queue'[at].limit = stuckTimeLimit
  BY <1>4
<1>6. /\ Len(queue) \in Nat /\ Len(queue') = Len(queue) + 1
      /\ \A k \in 1 .. Len(queue') : k # at => \E i \in 1 .. Len(queue) : queue'[k] = queue[i]
  BY <1>3, <1>4, OthersOld
<1>7. \A i \in 1 .. Len(queue) : queue[i].obj # count /\ queue[i].due \in Nat /\ Sent(queue[i].obj)
  <2>1. \A n \in Msgs : Sent(n) => n # count
    BY <1>1, <1>2 DEF Sent, Msgs
  <2> QED
    BY <2>1, OnTheWay
<1>8. taken.obj # count
  <2>1. \A n \in Msgs : Sent(n) => n # count
    BY <1>1, <1>2 DEF Sent, Msgs
  <2>2. count # 0
    BY <1>2 DEF Msgs
  <2> QED
    BY <2>1, <2>2, OnTheWay
<1>9. TypeOK'
  BY <1>1, <1>2, <1>4 DEF TypeOK
<1>10. QueueInv(queue')
  <2>1. /\ \A i \in 1 .. Len(queue) : i < at => queue[i].due <= queue'[at].due
        /\ \A i \in 1 .. Len(queue) : i >= at => queue'[at].due <= queue[i].due
    BY <1>2, <1>4, <1>5, <1>7
  <2> QED
    BY <1>2, <1>3, <1>4, <1>5, <1>7, <2>1, Kinds, LongQueueInv
<1>11. TakenInv'
  BY <1>1, <1>5, <1>6, <1>8, SMTT(30) DEF IInv, TakenInv
<1>12. SentInv'
  <2>1. \A n \in Msgs : Sent(n) => Sent(n)'
    BY <1>1 DEF Sent
  <2>2. Sent(count)' /\ ~Sent(count)
    BY <1>1, <1>2 DEF Sent, Msgs
  <2>3. \A k \in 1 .. Len(queue') : queue'[k].obj = count \/ Sent(queue'[k].obj)
    BY <1>5, <1>6, <1>7
  <2>4. \A k \in 1 .. Len(queue') : Sent(queue[k].obj)'
    BY <1>1, <2>2, <2>3 DEF Sent
  <2>5. monitor' # "idle" => Sent(taken.obj)'
    BY <1>1 DEF IInv, SentInv, Sent
  <2>6. ASSUME NEW n \in Msgs, reports'[n] > 0
        PROVE  /\ Sent(n)' /\ reports'[n] = 1
               /\ \A k \in 1 .. Len(queue') : Token(queue'[k]) => queue'[k].obj # n
               /\ Token(taken') => taken'.obj # n
    <3>1. /\ Sent(n) /\ reports[n] = 1
          /\ \A k \in 1 .. Len(queue) : Token(queue[k]) => queue[k].obj # n
          /\ Token(taken) => taken.obj # n
      BY <1>1, <2>6 DEF IInv, SentInv
    <3> QED
      BY <1>1, <1>5, <1>6, <2>1, <2>2, <3>1
  <2> QED
    BY <1>1, <1>2, <2>4, <2>5, <2>6 DEF SentInv
<1>13. ElapsedInv'
  <2>1. /\ \A k \in 1 .. Len(queue') : queue'[k].obj = count => k = at
        /\ taken'.obj # count'
    BY <1>1, <1>6, <1>7, <1>8
  <2>2. age + DELAY >= DELAY
    BY <1>2
  <2> QED
    BY <1>1, <1>5, <2>1, <2>2, Kinds DEF ElapsedInv, Elapsed
<1>14. LimitInv'
  BY <1>1, <1>2, <1>5, <1>6 DEF IInv, LimitInv
<1>15. EndedInv'
  <2> SUFFICES ASSUME NEW n \in Msgs, Ended(n)', n \notin crossed'
               PROVE  /\ StoppedAhead(queue', n, ran'[n], IsEnd(taken', n)) /\ StartedAhead(queue', n)
                      /\ taken'.obj = n /\ taken'.what = TIMEOUT => ran'[n] > taken'.limit
                      /\ taken'.obj = n /\ taken'.what = STARTED =>
                           \E j \in 1 .. Len(queue') : IsEnd(queue'[j], n)
    BY DEF EndedInv
  <2>1. Ended(n) /\ n # count /\ n \notin crossed
    BY <1>1, <1>2 DEF Ended, Msgs
  <2>2. /\ StoppedAhead(queue, n, ran[n], IsEnd(taken, n)) /\ StartedAhead(queue, n)
        /\ taken.obj = n /\ taken.what = TIMEOUT => ran[n] > taken.limit
        /\ taken.obj = n /\ taken.what = STARTED =>
             \E j \in 1 .. Len(queue) : IsEnd(queue[j], n)
    BY <2>1 DEF IInv, EndedInv
  <2>3. StoppedAhead(queue', n, ran[n], IsEnd(taken, n)) /\ StartedAhead(queue', n)
    BY <1>3, <1>4, <1>5, <2>1, <2>2, Kinds, LongEnded
  <2>4. \A i \in 1 .. Len(queue) : \E j \in 1 .. Len(queue') : queue'[j] = queue[i]
    BY <1>3, <1>4, OldKept
  <2> QED
    BY <1>1, <2>2, <2>3, <2>4
<1> QED
  BY <1>1, <1>9, <1>10, <1>11, <1>12, <1>13, <1>14, <1>15 DEF IInv

\* Back from a message that is no news of an end, with nothing else changed.
LEMMA IdleAgain ==
  ASSUME IInv, monitor' = "idle", taken' = NoMessage,
         UNCHANGED <<main, count, age, queue, ran, crossed>>, taken.what # FINISHED
  PROVE  TakenInv' /\ ElapsedInv' /\ LimitInv' /\ EndedInv'
<1>1. \A n : ~IsEnd(taken, n) /\ ~IsEnd(taken', n)
  BY Kinds DEF IsEnd
<1>2. taken'.what = "none" /\ taken'.obj = 0 /\ taken'.due = 0 /\ ~Token(taken')
  BY Kinds
<1>3. TakenInv'
  BY <1>2 DEF TakenInv
<1>4. ElapsedInv'
  BY <1>2 DEF IInv, ElapsedInv, Elapsed, STARTED, TIMEOUT
<1>5. LimitInv'
  BY DEF IInv, LimitInv
<1>6. EndedInv'
  <2> SUFFICES ASSUME NEW n \in Msgs, Ended(n)', n \notin crossed'
               PROVE  /\ StoppedAhead(queue', n, ran'[n], IsEnd(taken', n)) /\ StartedAhead(queue', n)
                      /\ taken'.obj = n /\ taken'.what = TIMEOUT => ran'[n] > taken'.limit
                      /\ taken'.obj = n /\ taken'.what = STARTED =>
                           \E j \in 1 .. Len(queue') : IsEnd(queue'[j], n)
    BY DEF EndedInv
  <2>1. Ended(n) /\ n \notin crossed
    BY DEF Ended
  <2>2. StoppedAhead(queue, n, ran[n], IsEnd(taken, n)) /\ StartedAhead(queue, n)
    BY <2>1 DEF IInv, EndedInv
  <2>3. StoppedAhead(queue', n, ran'[n], IsEnd(taken', n)) /\ StartedAhead(queue', n)
    BY <1>1, <2>2 DEF StoppedAhead, StartedAhead
  <2>4. taken'.what # TIMEOUT /\ taken'.what # STARTED
    BY <1>2 DEF TIMEOUT, STARTED
  <2> QED
    BY <2>3, <2>4
<1> QED
  BY <1>3, <1>4, <1>5, <1>6

LEMMA NothingTaken ==
  ASSUME IInv, TypeOK', QueueInv(queue)', monitor' = "idle", taken' = NoMessage,
         UNCHANGED <<main, count, age, queue, ran, crossed, reports, false_alarms>>,
         taken.what # FINISHED
  PROVE  IInv'
<1>1. ~Token(taken')
  BY Kinds
<1>2. SentInv'
  BY <1>1 DEF IInv, SentInv, Sent
<1>3. TakenInv' /\ ElapsedInv' /\ LimitInv' /\ EndedInv'
  BY IdleAgain
<1> QED
  BY <1>2, <1>3 DEF IInv

\* The timer that has gone off is right: its message takes, or took, longer than the
\* limit, or its end has crossed with its start.
LEMMA TimerIsTrue ==
  ASSUME IInv, monitor = "report"
  PROVE  Took(taken.obj) > taken.limit \/ taken.obj \in crossed
<1> DEFINE n == taken.obj
<1>1. taken.what = TIMEOUT /\ taken.due = 0 /\ taken.limit \in Limits
  BY DEF IInv, TakenInv, LimitInv
<1>2. n \in Msgs /\ Sent(n) /\ taken.limit \in Nat /\ count \in Nat /\ age \in Nat /\ n \in Nat
  BY OnTheWay
<1>3. CASE n = count /\ main \in {"work", "end"}
  <2>1. age >= Old \/ age + taken.due >= DELAY + taken.limit
    BY <1>1, <1>3 DEF IInv, ElapsedInv, Elapsed
  <2>2. age > taken.limit
    BY <1>1, <1>2, <2>1, OldAssumption, DelaysAssumption
  <2> QED
    BY <1>3, <2>2 DEF Took
<1>4. CASE Ended(n)
  <2>1. Took(n) = ran[n]
    BY <1>2, <1>4 DEF Took, Ended
  <2>2. n \in crossed \/ ran[n] > taken.limit
    BY <1>1, <1>2, <1>4 DEF IInv, EndedInv
  <2> QED
    BY <2>1, <2>2
<1>5. CASE n = count /\ main = "dead"
  BY <1>5 DEF IInv, SentInv
<1>6. main \in {"idle", "begin", "work", "end", "dead"}
  BY DEF IInv, TypeOK
<1> QED
  BY <1>2, <1>3, <1>4, <1>5, <1>6 DEF Sent, Ended

LEMMA FinishedStep == ASSUME IInv, Finished PROVE IInv'
<1>1. /\ main = "work" /\ main' = "end" /\ costTime' = age
      /\ UNCHANGED <<stuckListener, stuckTimeLimit, printer, sets, count, age, queue, monitor,
                     taken, ran, reports, false_alarms, crossed>>
  BY DEF Finished, setting, thread, history
<1>2. TypeOK'
  BY <1>1 DEF IInv, TypeOK
<1>3. QueueInv(queue)' /\ TakenInv' /\ LimitInv'
  BY <1>1 DEF IInv, QueueInv, TakenInv, LimitInv
<1>4. SentInv' /\ ElapsedInv'
  BY <1>1 DEF IInv, SentInv, Sent, ElapsedInv, Elapsed
<1>5. EndedInv'
  BY <1>1 DEF IInv, EndedInv, Ended, StoppedAhead, StartedAhead
<1> QED
  BY <1>1, <1>2, <1>3, <1>4, <1>5 DEF IInv

\* The end of a slow message is lost with the main thread.
LEMMA EndLoggedStep == ASSUME IInv, EndLogged PROVE IInv'
<1>1. /\ main = "end" /\ main' = "dead" /\ crossed' = crossed \cup {count}
      /\ UNCHANGED <<stuckListener, stuckTimeLimit, printer, sets, count, age, costTime, queue,
                     monitor, taken, ran, reports, false_alarms>>
  BY DEF EndLogged, setting, thread
<1>2. count \in Msgs
  BY <1>1 DEF IInv, SentInv
<1>3. TypeOK'
  BY <1>1, <1>2 DEF IInv, TypeOK
<1>4. QueueInv(queue)' /\ TakenInv' /\ LimitInv'
  BY <1>1 DEF IInv, QueueInv, TakenInv, LimitInv
<1>5. SentInv' /\ ElapsedInv'
  BY <1>1 DEF IInv, SentInv, Sent, ElapsedInv
<1>6. EndedInv'
  BY <1>1 DEF IInv, EndedInv, Ended, StoppedAhead, StartedAhead
<1> QED
  BY <1>1, <1>3, <1>4, <1>5, <1>6 DEF IInv

\* Without a listener the timer's message is dropped.
LEMMA HandleTimeoutStep == ASSUME IInv, HandleTimeout PROVE IInv'
<1>1. /\ monitor = "handle" /\ taken.what = TIMEOUT
      /\ \/ monitor' = "report" /\ taken' = taken
         \/ monitor' = "idle" /\ taken' = NoMessage
      /\ UNCHANGED <<stuckListener, stuckTimeLimit, printer, sets, main, count, age, costTime,
                     queue, ran, reports, false_alarms, crossed>>
  BY DEF HandleTimeout, Handles, Handled, setting, looper, history
<1>2. TypeOK'
  BY <1>1 DEF IInv, TypeOK
<1>4. QueueInv(queue)'
  BY <1>1 DEF IInv, QueueInv
<1>5. CASE monitor' = "report" /\ taken' = taken
  <2>1. taken \in Message /\ taken # NoMessage
    BY <1>1 DEF IInv, TakenInv
  <2>2. TakenInv'
    BY <1>1, <1>5, <2>1 DEF IInv, TakenInv
  <2>3. SentInv' /\ ElapsedInv' /\ LimitInv'
    BY <1>1, <1>5 DEF IInv, SentInv, Sent, ElapsedInv, Elapsed, LimitInv
  <2>4. EndedInv'
    BY <1>1, <1>5 DEF IInv, EndedInv, Ended, StoppedAhead, StartedAhead
  <2> QED
    BY <1>1, <1>2, <1>4, <2>2, <2>3, <2>4 DEF IInv
<1>6. CASE monitor' = "idle" /\ taken' = NoMessage
  <2>1. /\ QueueInv(queue)' /\ TypeOK'
    BY <1>2, <1>4
  <2> QED
    BY <1>1, <1>6, <2>1, Kinds, NothingTaken
<1> QED
  BY <1>1, <1>5, <1>6

\* The report.
LEMMA OnStuckStep == ASSUME IInv, OnStuck PROVE IInv'
<1>1. /\ monitor = "report" /\ taken.what = TIMEOUT
      /\ UNCHANGED <<stuckListener, stuckTimeLimit, printer, sets, main, count, age, costTime,
                     queue, ran, crossed>>
  BY DEF OnStuck, setting, looper, IInv, TakenInv
<1>2. taken \in Message /\ taken # NoMessage /\ taken.obj \in Msgs /\ Sent(taken.obj)
  BY <1>1, OnTheWay DEF IInv, TakenInv
<1>3. QueueInv(queue)'
  BY <1>1 DEF IInv, QueueInv
<1>4. CASE ~stuckListener
  <2>1. monitor' = "dead" /\ taken' = taken /\ UNCHANGED <<reports, false_alarms>>
    BY <1>4 DEF OnStuck
  <2>2. TypeOK'
    BY <1>1, <2>1 DEF IInv, TypeOK
  <2>3. TakenInv'
    BY <1>1, <1>2, <2>1 DEF IInv, TakenInv
  <2>4. SentInv' /\ ElapsedInv' /\ LimitInv'
    BY <1>1, <2>1 DEF IInv, SentInv, Sent, ElapsedInv, Elapsed, LimitInv
  <2>5. EndedInv'
    BY <1>1, <2>1 DEF IInv, EndedInv, Ended, StoppedAhead, StartedAhead
  <2> QED
    BY <1>1, <1>3, <2>1, <2>2, <2>3, <2>4, <2>5 DEF IInv
<1>5. CASE stuckListener
  <2> DEFINE n == taken.obj
  <2>1. /\ monitor' = "idle" /\ taken' = NoMessage /\ reports' = [reports EXCEPT ![n] = @ + 1]
        /\ false_alarms' = (IF Took(n) > taken.limit THEN false_alarms
                            ELSE false_alarms \cup {n})
    BY <1>5 DEF OnStuck, Handled
  <2>2. Took(n) > taken.limit \/ n \in crossed
    BY <1>1, <1>2, TimerIsTrue
  <2>3. false_alarms' \subseteq crossed'
    BY <1>1, <2>1, <2>2 DEF IInv
  <2>4. reports[n] = 0 /\ reports'[n] = 1 /\ \A m \in Msgs : m # n => reports'[m] = reports[m]
    <3>1. reports \in [Msgs -> Nat]
      BY DEF IInv, TypeOK
    <3>2. Token(taken)
      BY <1>1 DEF Token
    <3>3. ~(reports[n] > 0)
      BY <1>2, <3>2 DEF IInv, SentInv
    <3> QED
      BY <1>2, <2>1, <3>1, <3>3
  <2>5. TypeOK'
    BY <1>1, <1>2, <2>1, <2>3 DEF IInv, TypeOK
  <2>6. TakenInv' /\ ElapsedInv' /\ LimitInv'
    BY <1>1, <2>1, Kinds, IdleAgain
  <2>7. EndedInv'
    BY <1>1, <2>1, Kinds, IdleAgain
  <2>8. SentInv'
    <3>1. \A m \in Msgs : Sent(m)' <=> Sent(m)
      BY <1>1 DEF Sent
    <3>2. \A k \in 1 .. Len(queue) : Token(queue[k]) => queue[k].obj # n
      BY <1>1 DEF IInv, TakenInv, Token
    <3>3. \A m \in Msgs : reports'[m] > 0 =>
            /\ Sent(m)' /\ reports'[m] = 1
            /\ \A k \in 1 .. Len(queue') : Token(queue'[k]) => queue'[k].obj # m
      BY <1>1, <1>2, <2>4, <3>1, <3>2 DEF IInv, SentInv
    <3>4. ~Token(taken')
      BY <2>1, Kinds
    <3>5. \A k \in 1 .. Len(queue') : Sent(queue[k].obj)'
      BY <1>1 DEF IInv, SentInv, Sent
    <3> QED
      BY <1>1, <2>1, <3>3, <3>4, <3>5 DEF IInv, SentInv
  <2> QED
    BY <1>1, <1>3, <2>3, <2>5, <2>6, <2>7, <2>8 DEF IInv
<1> QED
  BY <1>4, <1>5

\* Time passes for the message and for its token alike.
LEMMA TickStep == ASSUME IInv, Tick PROVE IInv'
<1>1. /\ age' = (IF age < Old THEN age + 1 ELSE age)
      /\ queue' = [k \in DOMAIN queue |->
                     [queue[k] EXCEPT !.due = IF @ > 0 THEN @ - 1 ELSE 0]]
      /\ UNCHANGED <<stuckListener, stuckTimeLimit, printer, sets, main, count, costTime,
                     monitor, taken, ran, reports, false_alarms, crossed>>
  BY DEF Tick, setting, thread, history
<1>2. /\ TypeOK /\ queue \in Seq(Message) /\ Len(queue) \in Nat /\ age \in Nat
      /\ DOMAIN queue = 1 .. Len(queue)
      /\ \A k \in 1 .. Len(queue) : queue[k] \in Message /\ queue[k].due \in Nat
  BY OnTheWay
<1>3. \A m \in Message, d \in Nat :
        LET new == [m EXCEPT !.due = d]
        IN /\ new \in Message /\ new.what = m.what /\ new.obj = m.obj /\ new.limit = m.limit
           /\ new.due = d
  BY DEF Message
<1>4. \A k \in 1 .. Len(queue) :
        /\ queue'[k] \in Message /\ queue'[k].what = queue[k].what /\ queue'[k].obj = queue[k].obj
        /\ queue'[k].limit = queue[k].limit
        /\ queue'[k].due = IF queue[k].due > 0 THEN queue[k].due - 1 ELSE 0
  <2> TAKE k \in 1 .. Len(queue)
  <2> DEFINE d == IF queue[k].due > 0 THEN queue[k].due - 1 ELSE 0
  <2>1. queue'[k] = [queue[k] EXCEPT !.due = d]
    BY <1>1, <1>2
  <2>2. d \in Nat /\ queue[k] \in Message
    BY <1>2
  <2> HIDE DEF d
  <2>3. /\ queue'[k] \in Message /\ queue'[k].what = queue[k].what /\ queue'[k].obj = queue[k].obj
        /\ queue'[k].limit = queue[k].limit /\ queue'[k].due = d
    BY <1>3, <2>1, <2>2
  <2> QED
    BY <2>3 DEF d
<1>5. queue' \in Seq(Message) /\ Len(queue') = Len(queue)
  <2>1. queue' = [k \in 1 .. Len(queue) |-> queue'[k]]
    BY <1>1, <1>2
  <2> QED
    BY <1>2, <1>4, <2>1
<1>6. TypeOK'
  BY <1>1, <1>2, <1>5 DEF TypeOK
<1>7. QueueInv(queue')
  <2>1. QueueInv(queue)
    BY DEF IInv
  <2>2. \A j, k \in 1 .. Len(queue) : j < k => queue[j].due <= queue[k].due
    BY <2>1 DEF QueueInv
  <2>3. \A j, k \in 1 .. Len(queue') : j < k => queue'[j].due <= queue'[k].due
    BY <1>2, <1>4, <1>5, <2>2
  <2>4. \A k \in 1 .. Len(queue') : queue'[k].what = FINISHED => queue'[k].due = 0
    BY <1>4, <1>5, <2>1 DEF QueueInv
  <2>5. \A j, k \in 1 .. Len(queue') :
          Token(queue'[j]) /\ Token(queue'[k]) /\ queue'[j].obj = queue'[k].obj => j = k
    BY <1>4, <1>5, <2>1 DEF QueueInv, Token
  <2> QED
    BY <2>3, <2>4, <2>5 DEF QueueInv
<1>8. TakenInv'
  BY <1>1, <1>4, <1>5 DEF IInv, TakenInv, Token
<1>9. SentInv'
  BY <1>1, <1>4, <1>5 DEF IInv, SentInv, Sent, Token
<1>10. LimitInv'
  BY <1>1, <1>4, <1>5 DEF IInv, LimitInv
<1>11. ElapsedInv'
  <2> SUFFICES ASSUME main' \in {"work", "end"}
               PROVE  /\ \A k \in 1 .. Len(queue') : queue'[k].obj = count' => Elapsed(queue[k])'
                      /\ taken'.obj = count' => Elapsed(taken)'
    BY DEF ElapsedInv
  <2>1. DELAY \in Nat /\ Old \in Nat /\ Old > DELAY
    BY DelaysAssumption, OldAssumption
  <2>2. ASSUME NEW k \in 1 .. Len(queue'), queue'[k].obj = count' PROVE Elapsed(queue[k])'
    <3>1. Elapsed(queue[k]) /\ queue[k].limit \in Nat
      BY <1>1, <1>4, <1>5, <2>2, OnTheWay DEF IInv, ElapsedInv
    <3> QED
      BY <1>1, <1>2, <1>4, <1>5, <2>1, <3>1, SMTT(30) DEF Elapsed
  <2>3. ASSUME taken'.obj = count' PROVE Elapsed(taken)'
    <3>1. Elapsed(taken) /\ taken.due = 0
      BY <1>1, <2>3 DEF IInv, ElapsedInv, TakenInv
    <3>2. taken.what = TIMEOUT => taken.limit \in Nat
      BY OnTheWay DEF TIMEOUT
    <3> QED
      BY <1>1, <1>2, <2>1, <3>1, <3>2 DEF Elapsed
  <2> QED
    BY <2>2, <2>3
<1>12. EndedInv'
  <2>1. \A n \in Msgs : Ended(n)' <=> Ended(n)
    BY <1>1 DEF Ended
  <2> QED
    BY <1>1, <1>4, <1>5, <2>1, SMTT(30) DEF IInv, EndedInv, StoppedAhead, StartedAhead, IsEnd
<1> QED
  BY <1>1, <1>6, <1>7, <1>8, <1>9, <1>10, <1>11, <1>12 DEF IInv

\* A message leaves the queue that is no news of an end: what still holds of the rest.
LEMMA LeftOut ==
  ASSUME IInv, NEW k, queue' \in Seq(Message), Gapped(queue, k, queue'),
         UNCHANGED <<stuckTimeLimit, reports>>,
         \A n \in Msgs : Sent(n) => Sent(n)'
  PROVE  /\ QueueInv(queue') /\ Len(queue') \in Nat
         /\ \A j \in 1 .. Len(queue') : \E i \in 1 .. Len(queue) : i # k /\ queue'[j] = queue[i]
         /\ \A j \in 1 .. Len(queue') : queue'[j].limit \in Limits /\ Sent(queue[j].obj)'
         /\ \A n \in Msgs : ~IsEnd(queue[k], n) =>
              /\ \A r, e : StoppedAhead(queue, n, r, e) => StoppedAhead(queue', n, r, e)
              /\ StartedAhead(queue, n) => StartedAhead(queue', n)
         /\ \A i \in 1 .. Len(queue) : i # k => \E j \in 1 .. Len(queue') : queue'[j] = queue[i]
<1>1. queue \in Seq(Message) /\ QueueInv(queue)
  BY OnTheWay DEF IInv
<1>2. QueueInv(queue')
  BY <1>1, ShortQueueInv
<1>3. \A j \in 1 .. Len(queue') : \E i \in 1 .. Len(queue) : i # k /\ queue'[j] = queue[i]
  BY <1>1, OldKept
<1>4. \A j \in 1 .. Len(queue') : queue'[j].limit \in Limits
  BY <1>3 DEF IInv, LimitInv
<1>5. \A j \in 1 .. Len(queue') : Sent(queue[j].obj)'
  <2> TAKE j \in 1 .. Len(queue')
  <2>1. PICK i \in 1 .. Len(queue) : queue'[j] = queue[i]
    BY <1>3
  <2>2. queue[i].obj \in Msgs /\ Sent(queue[i].obj)
    BY OnTheWay
  <2>3. PICK n \in Msgs : n = queue[i].obj
    BY <2>2
  <2>4. Sent(n)' /\ queue'[j].obj = n
    BY <2>1, <2>2, <2>3
  <2> QED
    BY <2>4 DEF Sent
<1>6. \A n \in Msgs : ~IsEnd(queue[k], n) =>
         /\ \A r, e : StoppedAhead(queue, n, r, e) => StoppedAhead(queue', n, r, e)
         /\ StartedAhead(queue, n) => StartedAhead(queue', n)
  BY <1>1, ShortEnded
<1>7. \A i \in 1 .. Len(queue) : i # k => \E j \in 1 .. Len(queue') : queue'[j] = queue[i]
  BY <1>1, OthersOld
<1> QED
  BY <1>2, <1>3, <1>4, <1>5, <1>6, <1>7

\* What removeMessages leaves, whether or not there was something to remove.
LEMMA LeftOver ==
  ASSUME IInv, NEW what \in {STARTED, TIMEOUT}, NEW obj \in Msgs,
         queue' = RemoveMessages(queue, what, obj),
         UNCHANGED <<stuckTimeLimit, reports>>,
         \A n \in Msgs : Sent(n) => Sent(n)'
  PROVE  /\ queue' \in Seq(Message) /\ QueueInv(queue') /\ Len(queue') \in Nat
         /\ \A j \in 1 .. Len(queue') : \E i \in 1 .. Len(queue) : queue'[j] = queue[i]
         /\ \A j \in 1 .. Len(queue') : queue'[j].limit \in Limits /\ Sent(queue[j].obj)'
         /\ \A j \in 1 .. Len(queue') : ~(queue'[j].what = what /\ queue'[j].obj = obj)
         /\ \A n \in Msgs :
              /\ \A r, e : StoppedAhead(queue, n, r, e) => StoppedAhead(queue', n, r, e)
              /\ StartedAhead(queue, n) => StartedAhead(queue', n)
         /\ \A i \in 1 .. Len(queue) :
              queue[i].what # what => \E j \in 1 .. Len(queue') : queue'[j] = queue[i]
<1>1. queue \in Seq(Message) /\ QueueInv(queue) /\ Len(queue) \in Nat
  BY OnTheWay DEF IInv
<1>2. /\ queue' \in Seq(Message)
      /\ \/ queue' = queue /\ \A k \in 1 .. Len(queue) : ~(queue[k].what = what /\ queue[k].obj = obj)
         \/ \E k \in 1 .. Len(queue) :
              queue[k].what = what /\ queue[k].obj = obj /\ Gapped(queue, k, queue')
      /\ \A k \in 1 .. Len(queue') : ~(queue'[k].what = what /\ queue'[k].obj = obj)
  BY <1>1, Removing
<1>3. CASE queue' = queue
  <2>1. \A j \in 1 .. Len(queue') : queue'[j].limit \in Limits
    BY <1>3 DEF IInv, LimitInv
  <2>2. \A j \in 1 .. Len(queue') : Sent(queue[j].obj)'
    <3> TAKE j \in 1 .. Len(queue')
    <3>1. PICK n \in Msgs : n = queue[j].obj /\ Sent(n)
      BY <1>3, OnTheWay
    <3>2. Sent(n)'
      BY <3>1
    <3> QED
      BY <1>3, <3>1, <3>2 DEF Sent
  <2> QED
    BY <1>1, <1>2, <1>3, <2>1, <2>2
<1>4. CASE \E k \in 1 .. Len(queue) :
             queue[k].what = what /\ queue[k].obj = obj /\ Gapped(queue, k, queue')
  <2>1. PICK k \in 1 .. Len(queue) :
          queue[k].what = what /\ queue[k].obj = obj /\ Gapped(queue, k, queue')
    BY <1>4
  <2>2. \A n : ~IsEnd(queue[k], n)
    BY <2>1, Kinds DEF IsEnd
  <2>3. /\ QueueInv(queue') /\ Len(queue') \in Nat
        /\ \A j \in 1 .. Len(queue') : \E i \in 1 .. Len(queue) : i # k /\ queue'[j] = queue[i]
        /\ \A j \in 1 .. Len(queue') : queue'[j].limit \in Limits /\ Sent(queue[j].obj)'
        /\ \A n \in Msgs : ~IsEnd(queue[k], n) =>
             /\ \A r, e : StoppedAhead(queue, n, r, e) => StoppedAhead(queue', n, r, e)
             /\ StartedAhead(queue, n) => StartedAhead(queue', n)
        /\ \A i \in 1 .. Len(queue) : i # k => \E j \in 1 .. Len(queue') : queue'[j] = queue[i]
    BY <1>2, <2>1, LeftOut
  <2>4. \A i \in 1 .. Len(queue) :
          queue[i].what # what => \E j \in 1 .. Len(queue') : queue'[j] = queue[i]
    BY <2>1, <2>3
  <2> QED
    BY <1>2, <2>2, <2>3, <2>4
<1> QED
  BY <1>2, <1>3, <1>4

\* A short message takes its token along, or its end and its start have crossed.
LEMMA EndShortStep == ASSUME IInv, EndShort PROVE IInv'
<1>1. /\ main = "end" /\ main' = "idle"
      /\ queue' = RemoveMessages(queue, STARTED, count)
      /\ ran' = [ran EXCEPT ![count] = age]
      /\ crossed' = (IF Queued(STARTED, count) THEN crossed ELSE crossed \cup {count})
      /\ UNCHANGED <<stuckListener, stuckTimeLimit, printer, sets, count, age, costTime, monitor,
                     taken, reports, false_alarms>>
  BY DEF EndShort, setting, thread
<1>2. TypeOK /\ count \in Msgs /\ age \in Nat /\ count \in Nat
  BY <1>1, OnTheWay DEF IInv, SentInv
<1>3. \A n \in Msgs : Sent(n) => Sent(n)'
  BY <1>1 DEF Sent
<1>4. /\ queue' \in Seq(Message) /\ QueueInv(queue') /\ Len(queue') \in Nat
      /\ \A j \in 1 .. Len(queue') : \E i \in 1 .. Len(queue) : queue'[j] = queue[i]
      /\ \A j \in 1 .. Len(queue') : queue'[j].limit \in Limits /\ Sent(queue[j].obj)'
      /\ \A j \in 1 .. Len(queue') : ~(queue'[j].what = STARTED /\ queue'[j].obj = count)
      /\ \A n \in Msgs :
           /\ \A r, e : StoppedAhead(queue, n, r, e) => StoppedAhead(queue', n, r, e)
           /\ StartedAhead(queue, n) => StartedAhead(queue', n)
      /\ \A i \in 1 .. Len(queue) :
           queue[i].what # STARTED => \E j \in 1 .. Len(queue') : queue'[j] = queue[i]
  BY <1>1, <1>2, <1>3, LeftOver
<1>5. TypeOK'
  BY <1>1, <1>2, <1>4 DEF TypeOK
<1>6. TakenInv'
  BY <1>1, <1>4 DEF IInv, TakenInv
<1>7. SentInv'
  <2>1. monitor' # "idle" => Sent(taken.obj)'
    BY <1>1 DEF IInv, SentInv, Sent
  <2> QED
    BY <1>1, <1>3, <1>4, <2>1 DEF IInv, SentInv
<1>8. ElapsedInv'
  BY <1>1 DEF ElapsedInv
<1>9. LimitInv'
  BY <1>1, <1>4 DEF IInv, LimitInv
<1>10. EndedInv'
  <2> SUFFICES ASSUME NEW n \in Msgs, Ended(n)', n \notin crossed'
               PROVE  /\ StoppedAhead(queue', n, ran'[n], IsEnd(taken', n)) /\ StartedAhead(queue', n)
                      /\ taken'.obj = n /\ taken'.what = TIMEOUT => ran'[n] > taken'.limit
                      /\ taken'.obj = n /\ taken'.what = STARTED =>
                           \E j \in 1 .. Len(queue') : IsEnd(queue'[j], n)
    BY DEF EndedInv
  <2>1. CASE n = count
    <3>1. PICK i \in 1 .. Len(queue) : queue[i].obj = n /\ queue[i].what = STARTED
      BY <1>1, <2>1, OnTheWay DEF Queued
    <3>2. \A k \in 1 .. Len(queue) : Token(queue[k]) /\ queue[k].obj = n => queue[k].what = STARTED
      BY <3>1 DEF IInv, QueueInv, Token
    <3>3. \A j \in 1 .. Len(queue') : ~(Token(queue'[j]) /\ queue'[j].obj = n)
      <4> TAKE j \in 1 .. Len(queue')
      <4>1. PICK k \in 1 .. Len(queue) :
              queue'[j] = queue[k] /\ ~(queue[k].what = STARTED /\ queue[k].obj = count)
        BY <1>4, SMTT(30)
      <4> QED
        BY <2>1, <3>2, <4>1
    <3>4. ~(Token(taken) /\ taken.obj = n)
      BY <3>1 DEF IInv, TakenInv, Token
    <3> QED
      BY <1>1, <3>3, <3>4 DEF StoppedAhead, StartedAhead, Token
  <2>2. CASE n # count
    <3>1. Ended(n) /\ n \notin crossed /\ ran'[n] = ran[n]
      BY <1>1, <1>2, <2>2 DEF Ended, TypeOK
    <3>2. /\ StoppedAhead(queue, n, ran[n], IsEnd(taken, n)) /\ StartedAhead(queue, n)
          /\ taken.obj = n /\ taken.what = TIMEOUT => ran[n] > taken.limit
          /\ taken.obj = n /\ taken.what = STARTED =>
               \E j \in 1 .. Len(queue) : IsEnd(queue[j], n)
      BY <3>1 DEF IInv, EndedInv
    <3>3. StoppedAhead(queue', n, ran[n], IsEnd(taken, n)) /\ StartedAhead(queue', n)
      BY <1>4, <3>2
    <3>4. (\E j \in 1 .. Len(queue) : IsEnd(queue[j], n))
            => \E j \in 1 .. Len(queue') : IsEnd(queue'[j], n)
      BY <1>4, Kinds DEF IsEnd
    <3> QED
      BY <1>1, <3>1, <3>2, <3>3, <3>4
  <2> QED
    BY <2>1, <2>2
<1> QED
  BY <1>1, <1>4, <1>5, <1>6, <1>7, <1>8, <1>9, <1>10 DEF IInv

\* The monitor thread takes the first message: whatever was ahead of others still is.
LEMMA TakeStep == ASSUME IInv, Take PROVE IInv'
<1>1. /\ monitor = "idle" /\ queue # <<>> /\ Head(queue).due = 0
      /\ monitor' = "handle" /\ taken' = Head(queue) /\ queue' = Tail(queue)
      /\ UNCHANGED <<stuckListener, stuckTimeLimit, printer, sets, main, count, age, costTime,
                     ran, reports, false_alarms, crossed>>
  BY DEF Take, setting, looper, history
<1>2. queue \in Seq(Message) /\ TypeOK /\ Len(queue) \in Nat
  BY OnTheWay
<1>3. /\ queue' \in Seq(Message) /\ Gapped(queue, 1, queue') /\ taken' = queue[1]
      /\ queue[1] \in Message /\ Len(queue) = Len(queue') + 1 /\ 1 \in 1 .. Len(queue)
      /\ \A i \in 1 .. Len(queue') : queue'[i] = queue[i + 1] /\ i + 1 \in 1 .. Len(queue)
  <2>1. queue' \in Seq(Message) /\ Gapped(queue, 1, queue') /\ taken' = queue[1] /\ queue[1] \in Message
    BY <1>1, <1>2, Taking
  <2>2. Len(queue') \in Nat /\ \A i \in 1 .. Len(queue') : Gap(i, 1) = i + 1
    BY <2>1 DEF Gap
  <2> QED
    BY <1>2, <2>1, <2>2 DEF Gapped
<1>4. \A n \in Msgs : Sent(n) => Sent(n)'
  BY <1>1 DEF Sent
<1>5. /\ QueueInv(queue') /\ Len(queue') \in Nat
      /\ \A j \in 1 .. Len(queue') : \E i \in 1 .. Len(queue) : i # 1 /\ queue'[j] = queue[i]
      /\ \A j \in 1 .. Len(queue') : queue'[j].limit \in Limits /\ Sent(queue[j].obj)'
      /\ \A n \in Msgs : ~IsEnd(queue[1], n) =>
           /\ \A r, e : StoppedAhead(queue, n, r, e) => StoppedAhead(queue', n, r, e)
           /\ StartedAhead(queue, n) => StartedAhead(queue', n)
      /\ \A i \in 1 .. Len(queue) : i # 1 => \E j \in 1 .. Len(queue') : queue'[j] = queue[i]
  BY <1>1, <1>3, <1>4, LeftOut
<1>6. taken' # NoMessage /\ taken'.due = 0 /\ taken' \in Message
  <2>1. \A m \in Message : m.what \in {STARTED, FINISHED, TIMEOUT}
    BY DEF Message
  <2>2. NoMessage.what \notin {STARTED, FINISHED, TIMEOUT}
    BY DEF NoMessage, STARTED, FINISHED, TIMEOUT
  <2> QED
    BY <1>1, <1>3, <2>1, <2>2
<1>7. TypeOK'
  BY <1>1, <1>2, <1>3, <1>6 DEF TypeOK
<1>8. TakenInv'
  <2>1. \A i \in 1 .. Len(queue) : i # 1 /\ Token(queue[1]) /\ Token(queue[i])
                                     => queue[i].obj # queue[1].obj
    BY <1>3 DEF IInv, QueueInv
  <2>2. Token(taken') => \A k \in 1 .. Len(queue') : Token(queue'[k]) => queue'[k].obj # taken'.obj
    <3> SUFFICES ASSUME Token(queue[1]), NEW k \in 1 .. Len(queue'), Token(queue'[k])
                 PROVE  queue'[k].obj # queue[1].obj
      BY <1>3
    <3>1. PICK i \in 1 .. Len(queue) : i # 1 /\ queue'[k] = queue[i]
      BY <1>5
    <3> QED
      BY <2>1, <3>1
  <2> QED
    BY <1>1, <1>6, <2>2 DEF TakenInv
<1>9. SentInv'
  <2>1. Sent(taken.obj)'
    <3>1. queue[1].obj \in Msgs /\ Sent(queue[1].obj)
      BY <1>3, OnTheWay
    <3> QED
      BY <1>1, <1>3, <3>1 DEF Sent
  <2>2. ASSUME NEW n \in Msgs, reports'[n] > 0
        PROVE  /\ Sent(n)' /\ reports'[n] = 1
               /\ \A k \in 1 .. Len(queue') : Token(queue'[k]) => queue'[k].obj # n
               /\ Token(taken') => taken'.obj # n
    <3>1. /\ Sent(n) /\ reports[n] = 1
          /\ \A k \in 1 .. Len(queue) : Token(queue[k]) => queue[k].obj # n
      BY <1>1, <2>2 DEF IInv, SentInv
    <3> QED
      BY <1>1, <1>3, <1>4, <1>5, <3>1
  <2>3. \A j \in 1 .. Len(queue') : Sent(queue[j].obj)'
    BY <1>5
  <2>4. (main' \notin {"idle", "dead"} => count' \in Msgs) /\ (main' = "dead" => count' \in crossed')
    BY <1>1 DEF IInv, SentInv
  <2> QED
    BY <2>1, <2>2, <2>3, <2>4 DEF SentInv
<1>10. ElapsedInv'
  BY <1>1, <1>3, <1>5 DEF IInv, ElapsedInv, Elapsed
<1>11. LimitInv'
  BY <1>3, <1>5 DEF IInv, LimitInv
<1>12. EndedInv'
  <2> SUFFICES ASSUME NEW n \in Msgs, Ended(n)', n \notin crossed'
               PROVE  /\ StoppedAhead(queue', n, ran'[n], IsEnd(taken', n)) /\ StartedAhead(queue', n)
                      /\ taken'.obj = n /\ taken'.what = TIMEOUT => ran'[n] > taken'.limit
                      /\ taken'.obj = n /\ taken'.what = STARTED =>
                           \E j \in 1 .. Len(queue') : IsEnd(queue'[j], n)
    BY DEF EndedInv
  <2>1. Ended(n) /\ n \notin crossed
    BY <1>1 DEF Ended
  <2>2. StoppedAhead(queue, n, ran[n], IsEnd(taken, n)) /\ StartedAhead(queue, n)
    BY <2>1 DEF IInv, EndedInv
  <2>3. ~IsEnd(taken, n)
    BY <1>1, Kinds DEF IInv, TakenInv
  <2>4. StoppedAhead(queue', n, ran[n], IsEnd(taken', n))
    <3>1. CASE IsEnd(queue[1], n)
      BY <1>3, <3>1 DEF StoppedAhead
    <3>2. CASE ~IsEnd(queue[1], n)
      <4>1. StoppedAhead(queue', n, ran[n], IsEnd(taken, n))
        BY <1>5, <2>2, <3>2
      <4> QED
        BY <2>3, <4>1 DEF StoppedAhead
    <3> QED
      BY <3>1, <3>2
  <2>5. \A k \in 1 .. Len(queue) : queue[k].what = STARTED /\ queue[k].obj = n =>
          \E j \in 1 .. Len(queue') : k < j + 1 /\ IsEnd(queue'[j], n)
    <3> SUFFICES ASSUME NEW k \in 1 .. Len(queue), queue[k].what = STARTED /\ queue[k].obj = n
                 PROVE  \E j \in 1 .. Len(queue') : k < j + 1 /\ IsEnd(queue'[j], n)
      OBVIOUS
    <3>1. PICK j \in 1 .. Len(queue) : k < j /\ IsEnd(queue[j], n)
      BY <2>2 DEF StartedAhead
    <3>2. j - 1 \in 1 .. Len(queue') /\ (j - 1) + 1 = j
      BY <1>3, <1>5, <3>1
    <3>3. queue'[j - 1] = queue[j] /\ k < (j - 1) + 1
      BY <1>3, <3>1, <3>2
    <3> QED
      BY <3>1, <3>2, <3>3
  <2>6. StartedAhead(queue', n)
    <3> SUFFICES ASSUME NEW i \in 1 .. Len(queue'), queue'[i].what = STARTED /\ queue'[i].obj = n
                 PROVE  \E j \in 1 .. Len(queue') : i < j /\ IsEnd(queue'[j], n)
      BY DEF StartedAhead
    <3>1. PICK j \in 1 .. Len(queue') : i + 1 < j + 1 /\ IsEnd(queue'[j], n)
      BY <1>3, <2>5
    <3> QED
      BY <1>5, <3>1
  <2>7. taken'.obj = n /\ taken'.what = TIMEOUT => ran[n] > taken'.limit
    BY <1>3, <2>2, <2>3 DEF StoppedAhead
  <2>8. taken'.obj = n /\ taken'.what = STARTED =>
           \E j \in 1 .. Len(queue') : IsEnd(queue'[j], n)
    BY <1>3, <2>5
  <2> QED
    BY <1>1, <2>4, <2>6, <2>7, <2>8
<1> QED
  BY <1>1, <1>5, <1>7, <1>8, <1>9, <1>10, <1>11, <1>12 DEF IInv

\* The news of an end stops the timer of its message.
LEMMA HandleFinishedStep == ASSUME IInv, HandleFinished PROVE IInv'
<1>1. /\ monitor = "handle" /\ taken.what = FINISHED /\ monitor' = "idle" /\ taken' = NoMessage
      /\ queue' = RemoveMessages(queue, TIMEOUT, taken.obj)
      /\ UNCHANGED <<stuckListener, stuckTimeLimit, printer, sets, main, count, age, costTime,
                     ran, reports, false_alarms, crossed>>
  BY DEF HandleFinished, Handles, Handled, setting, looper, history
<1>2. TypeOK /\ taken.obj \in Msgs
  BY <1>1, OnTheWay
<1>3. \A n \in Msgs : Sent(n) => Sent(n)'
  BY <1>1 DEF Sent
<1>4. /\ queue' \in Seq(Message) /\ QueueInv(queue') /\ Len(queue') \in Nat
      /\ \A j \in 1 .. Len(queue') : \E i \in 1 .. Len(queue) : queue'[j] = queue[i]
      /\ \A j \in 1 .. Len(queue') : queue'[j].limit \in Limits /\ Sent(queue[j].obj)'
      /\ \A j \in 1 .. Len(queue') : ~(queue'[j].what = TIMEOUT /\ queue'[j].obj = taken.obj)
      /\ \A n \in Msgs :
           /\ \A r, e : StoppedAhead(queue, n, r, e) => StoppedAhead(queue', n, r, e)
           /\ StartedAhead(queue, n) => StartedAhead(queue', n)
  BY <1>1, <1>2, <1>3, LeftOver
<1>5. taken'.what = "none" /\ taken'.obj = 0 /\ taken'.due = 0 /\ ~Token(taken')
  BY <1>1, Kinds
<1>6. TypeOK'
  BY <1>1, <1>2, <1>4 DEF TypeOK
<1>7. TakenInv'
  BY <1>1, <1>5 DEF TakenInv
<1>8. SentInv'
  <2>1. \A j \in 1 .. Len(queue') : Sent(queue[j].obj)'
    BY <1>4
  <2>2. ASSUME NEW n \in Msgs, reports'[n] > 0
        PROVE  /\ Sent(n)' /\ reports'[n] = 1
               /\ \A k \in 1 .. Len(queue') : Token(queue'[k]) => queue'[k].obj # n
    <3>1. /\ Sent(n) /\ reports[n] = 1
          /\ \A k \in 1 .. Len(queue) : Token(queue[k]) => queue[k].obj # n
      BY <1>1, <2>2 DEF IInv, SentInv
    <3> QED
      BY <1>1, <1>3, <1>4, <3>1
  <2>3. (main' \notin {"idle", "dead"} => count' \in Msgs) /\ (main' = "dead" => count' \in crossed')
    BY <1>1 DEF IInv, SentInv
  <2> QED
    BY <1>1, <1>5, <2>1, <2>2, <2>3 DEF SentInv
<1>9. ElapsedInv'
  BY <1>1, <1>4, <1>5 DEF IInv, ElapsedInv, Elapsed, STARTED, TIMEOUT
<1>10. LimitInv'
  BY <1>1, <1>4 DEF LimitInv
<1>11. EndedInv'
  <2> SUFFICES ASSUME NEW n \in Msgs, Ended(n)', n \notin crossed'
               PROVE  /\ StoppedAhead(queue', n, ran'[n], IsEnd(taken', n)) /\ StartedAhead(queue', n)
                      /\ taken'.obj = n /\ taken'.what = TIMEOUT => ran'[n] > taken'.limit
                      /\ taken'.obj = n /\ taken'.what = STARTED =>
                           \E j \in 1 .. Len(queue') : IsEnd(queue'[j], n)
    BY DEF EndedInv
  <2>1. Ended(n) /\ n \notin crossed
    BY <1>1 DEF Ended
  <2>2. StoppedAhead(queue, n, ran[n], IsEnd(taken, n)) /\ StartedAhead(queue, n)
    BY <2>1 DEF IInv, EndedInv
  <2>3. StartedAhead(queue', n)
    BY <1>4, <2>2
  <2>4. StoppedAhead(queue', n, ran[n], IsEnd(taken', n))
    <3>1. CASE n = taken.obj
      BY <1>4, <3>1 DEF StoppedAhead
    <3>2. CASE n # taken.obj
      <4>1. ~IsEnd(taken, n)
        BY <3>2 DEF IsEnd
      <4>2. StoppedAhead(queue', n, ran[n], IsEnd(taken, n))
        BY <1>4, <2>2
      <4> QED
        BY <4>1, <4>2 DEF StoppedAhead
    <3> QED
      BY <3>1, <3>2
  <2>5. taken'.what # TIMEOUT /\ taken'.what # STARTED
    BY <1>5 DEF TIMEOUT, STARTED
  <2> QED
    BY <1>1, <2>3, <2>4, <2>5
<1> QED
  BY <1>1, <1>4, <1>6, <1>7, <1>8, <1>9, <1>10, <1>11 DEF IInv

\* A message has been put into the queue, where its delay belongs.
PutAt(at, what, obj, due) ==
    /\ queue' \in Seq(Message) /\ Gapped(queue', at, queue) /\ QueueInv(queue')
    /\ queue'[at].what = what /\ queue'[at].obj = obj /\ queue'[at].due = due
    /\ queue'[at].limit = stuckTimeLimit
    /\ \A i \in 1 .. Len(queue) : i < at <=> queue[i].due <= due
    /\ Len(queue') = Len(queue) + 1
    /\ \A k \in 1 .. Len(queue') : k # at => \E i \in 1 .. Len(queue) : queue'[k] = queue[i]
    /\ \A i \in 1 .. Len(queue) : \E k \in 1 .. Len(queue') :
         k # at /\ queue'[k] = queue[i] /\ (k < at <=> i < at)

\* A message is sent that is no second token.
LEMMA PutIn ==
  ASSUME IInv, NEW what \in {STARTED, FINISHED, TIMEOUT}, NEW obj \in Msgs, NEW due \in Nat,
         queue' = Send(queue, what, obj, due), what = FINISHED => due = 0,
         what # FINISHED => \A i \in 1 .. Len(queue) : Token(queue[i]) => queue[i].obj # obj
  PROVE  \E at \in 1 .. Len(queue) + 1 : PutAt(at, what, obj, due)
<1>1. /\ queue \in Seq(Message) /\ QueueInv(queue) /\ Len(queue) \in Nat /\ stuckTimeLimit \in Nat
      /\ \A i \in 1 .. Len(queue) : queue[i].due \in Nat
  BY OnTheWay DEF IInv
<1>2. PICK at \in 1 .. Len(queue) + 1 :
        /\ queue' \in Seq(Message) /\ Gapped(queue', at, queue)
        /\ queue'[at] = [what |-> what, obj |-> obj, due |-> due, limit |-> stuckTimeLimit]
        /\ \A i \in 1 .. Len(queue) : i < at <=> queue[i].due <= due
  BY <1>1, Sending
<1>3. /\ queue'[at].what = what /\ queue'[at].obj = obj /\ queue'[at].due = due
      /\ queue'[at].limit = stuckTimeLimit
  BY <1>2
<1>4. QueueInv(queue')
  <2>1. /\ \A i \in 1 .. Len(queue) : i < at => queue[i].due <= queue'[at].due
        /\ \A i \in 1 .. Len(queue) : i >= at => queue'[at].due <= queue[i].due
    BY <1>1, <1>2, <1>3
  <2>2. Token(queue'[at]) => \A i \in 1 .. Len(queue) :
           Token(queue[i]) => queue[i].obj # queue'[at].obj
    BY <1>3, Kinds DEF Token
  <2> QED
    BY <1>1, <1>2, <1>3, <2>1, <2>2, LongQueueInv
<1>5. /\ Len(queue') = Len(queue) + 1
      /\ \A k \in 1 .. Len(queue') : k # at => \E i \in 1 .. Len(queue) : queue'[k] = queue[i]
  BY <1>1, <1>2, OthersOld, SMTT(30)
<1>6. \A i \in 1 .. Len(queue) : \E k \in 1 .. Len(queue') :
        k # at /\ queue'[k] = queue[i] /\ (k < at <=> i < at)
  <2>1. \A i \in 1 .. Len(queue) :
          Gap(i, at) \in 1 .. Len(queue') /\ Gap(i, at) # at /\ (Gap(i, at) < at <=> i < at)
    BY <1>1, <1>5, GapOrder
  <2> QED
    BY <1>2, <2>1 DEF Gapped
<1> QED
  BY <1>2, <1>3, <1>4, <1>5, <1>6 DEF PutAt

\* What lies behind a message put in is due later than it.
LEMMA BehindTheNew ==
  ASSUME queue \in Seq(Message), queue' \in Seq(Message),
         NEW at, Gapped(queue', at, queue), NEW due,
         \A i \in 1 .. Len(queue) : i < at <=> queue[i].due <= due, due \in Nat
  PROVE  \A k \in 1 .. Len(queue') : k > at => queue'[k].due > due
<1>1. Len(queue) \in Nat /\ Len(queue') = Len(queue) + 1 /\ at \in 1 .. Len(queue) + 1
  BY DEF Gapped
<1>2. \A i \in 1 .. Len(queue) : queue[i] \in Message
  OBVIOUS
<1>3. \A i \in 1 .. Len(queue) : queue[i].due \in Nat
  BY <1>2 DEF Message
<1> TAKE k \in 1 .. Len(queue')
<1> HAVE k > at
<1>4. k - 1 \in 1 .. Len(queue) /\ ~(k - 1 < at) /\ Gap(k - 1, at) = k
  BY <1>1 DEF Gap
<1>5. queue'[k] = queue[k - 1]
  BY <1>4 DEF Gapped
<1> QED
  BY <1>3, <1>4, <1>5

\* The start becomes a timer, behind the news of the end if that has been sent.
LEMMA HandleStartedStep == ASSUME IInv, HandleStarted PROVE IInv'
<1>1. /\ monitor = "handle" /\ taken.what = STARTED /\ monitor' = "idle" /\ taken' = NoMessage
      /\ queue' = Send(queue, TIMEOUT, taken.obj, stuckTimeLimit)
      /\ UNCHANGED <<stuckListener, stuckTimeLimit, printer, sets, main, count, age, costTime,
                     ran, reports, false_alarms, crossed>>
  BY DEF HandleStarted, Handles, Handled, Timer, setting, looper, history
<1>2. /\ TypeOK /\ taken.obj \in Msgs /\ queue \in Seq(Message) /\ Len(queue) \in Nat
      /\ stuckTimeLimit \in Nat /\ stuckTimeLimit \in Limits /\ age \in Nat /\ Sent(taken.obj)
  BY <1>1, OnTheWay
<1>3. \A i \in 1 .. Len(queue) : Token(queue[i]) => queue[i].obj # taken.obj
  BY <1>1 DEF IInv, TakenInv, Token
<1>4. PICK at \in 1 .. Len(queue) + 1 : PutAt(at, TIMEOUT, taken.obj, stuckTimeLimit)
  BY <1>1, <1>2, <1>3, Kinds, PutIn
<1> USE DEF PutAt
<1>5. taken'.what = "none" /\ taken'.obj = 0 /\ taken'.due = 0 /\ ~Token(taken')
  BY <1>1, Kinds
<1>6. TypeOK'
  BY <1>1, <1>2, <1>4 DEF TypeOK
<1>7. TakenInv'
  BY <1>1, <1>5 DEF TakenInv
<1>8. SentInv'
  <2>1. \A n \in Msgs : Sent(n)' <=> Sent(n)
    BY <1>1 DEF Sent
  <2>2. \A j \in 1 .. Len(queue') : Sent(queue[j].obj)'
    <3> TAKE j \in 1 .. Len(queue')
    <3>1. queue'[j].obj \in Msgs /\ Sent(queue'[j].obj)
      BY <1>2, <1>4, OnTheWay
    <3> QED
      BY <1>1, <3>1 DEF Sent
  <2>3. ASSUME NEW n \in Msgs, reports'[n] > 0
        PROVE  /\ Sent(n)' /\ reports'[n] = 1
               /\ \A k \in 1 .. Len(queue') : Token(queue'[k]) => queue'[k].obj # n
    <3>1. /\ Sent(n) /\ reports[n] = 1
          /\ \A k \in 1 .. Len(queue) : Token(queue[k]) => queue[k].obj # n
          /\ taken.obj # n
      BY <1>1, <2>3 DEF IInv, SentInv, Token
    <3>2. ASSUME NEW k \in 1 .. Len(queue'), Token(queue'[k]) PROVE queue'[k].obj # n
      <4>1. CASE k = at
        BY <1>4, <3>1, <4>1
      <4>2. CASE k # at
        <5>1. PICK i \in 1 .. Len(queue) : queue'[k] = queue[i]
          BY <1>4, <4>2
        <5> QED
          BY <3>1, <3>2, <5>1
      <4> QED
        BY <4>1, <4>2
    <3> QED
      BY <1>1, <2>1, <3>1, <3>2
  <2>4. (main' \notin {"idle", "dead"} => count' \in Msgs) /\ (main' = "dead" => count' \in crossed')
    BY <1>1 DEF IInv, SentInv
  <2> QED
    BY <1>1, <1>5, <2>2, <2>3, <2>4 DEF SentInv
<1>9. ElapsedInv'
  <2> SUFFICES ASSUME main' \in {"work", "end"}
               PROVE  /\ \A k \in 1 .. Len(queue') : queue'[k].obj = count' => Elapsed(queue[k])'
                      /\ taken'.obj = count' => Elapsed(taken)'
    BY DEF ElapsedInv
  <2>1. Elapsed(taken)'
    BY <1>5 DEF Elapsed, STARTED, TIMEOUT
  <2>2. ASSUME NEW k \in 1 .. Len(queue'), queue'[k].obj = count' PROVE Elapsed(queue[k])'
    <3>1. CASE k = at
      <4>1. Elapsed(taken) /\ taken.due = 0
        BY <1>1, <1>4, <2>2, <3>1 DEF IInv, ElapsedInv, TakenInv
      <4>2. age >= DELAY /\ DELAY \in Nat
        BY <1>1, <1>2, <4>1, DelaysAssumption DEF Elapsed
      <4> QED
        BY <1>1, <1>2, <1>4, <3>1, <4>2, Kinds DEF Elapsed
    <3>2. CASE k # at
      <4>1. PICK i \in 1 .. Len(queue) : queue'[k] = queue[i]
        BY <1>4, <3>2
      <4>2. Elapsed(queue[i])
        BY <1>1, <2>2, <4>1 DEF IInv, ElapsedInv
      <4> QED
        BY <1>1, <4>1, <4>2 DEF Elapsed
    <3> QED
      BY <3>1, <3>2
  <2> QED
    BY <2>1, <2>2
<1>10. LimitInv'
  BY <1>1, <1>2, <1>4 DEF IInv, LimitInv
<1>11. EndedInv'
  <2> SUFFICES ASSUME NEW n \in Msgs, Ended(n)', n \notin crossed'
               PROVE  /\ StoppedAhead(queue', n, ran'[n], IsEnd(taken', n)) /\ StartedAhead(queue', n)
                      /\ taken'.obj = n /\ taken'.what = TIMEOUT => ran'[n] > taken'.limit
                      /\ taken'.obj = n /\ taken'.what = STARTED =>
                           \E j \in 1 .. Len(queue') : IsEnd(queue'[j], n)
    BY DEF EndedInv
  <2>1. Ended(n) /\ n \notin crossed
    BY <1>1 DEF Ended
  <2>2. /\ StoppedAhead(queue, n, ran[n], IsEnd(taken, n)) /\ StartedAhead(queue, n)
        /\ taken.obj = n => \E j \in 1 .. Len(queue) : IsEnd(queue[j], n)
    BY <1>1, <2>1 DEF IInv, EndedInv
  <2>3. queue'[at].obj = n => \E j \in 1 .. Len(queue') : j < at /\ IsEnd(queue'[j], n)
    <3> SUFFICES ASSUME taken.obj = n
                 PROVE  \E j \in 1 .. Len(queue') : j < at /\ IsEnd(queue'[j], n)
      BY <1>4
    <3>1. PICK i \in 1 .. Len(queue) : IsEnd(queue[i], n)
      BY <2>2
    <3>2. queue[i].due = 0
      BY <3>1 DEF IInv, QueueInv, IsEnd
    <3>3. i < at
      BY <1>2, <1>4, <3>2
    <3>4. PICK j \in 1 .. Len(queue') : queue'[j] = queue[i] /\ (j < at <=> i < at)
      BY <1>4
    <3> QED
      BY <3>1, <3>3, <3>4
  <2>4. StoppedAhead(queue', n, ran[n], IsEnd(taken, n))
    BY <1>2, <1>4, <2>2, <2>3, LongEnded
  <2>5. StartedAhead(queue', n)
    BY <1>2, <1>4, <2>2, Kinds, LongEnded
  <2>6. ~IsEnd(taken, n)
    BY <1>1, Kinds DEF IsEnd
  <2>7. StoppedAhead(queue', n, ran[n], IsEnd(taken', n))
    BY <2>4, <2>6 DEF StoppedAhead
  <2>8. taken'.what # TIMEOUT /\ taken'.what # STARTED
    BY <1>5 DEF TIMEOUT, STARTED
  <2> QED
    BY <1>1, <2>5, <2>7, <2>8
<1> QED
  BY <1>1, <1>4, <1>6, <1>7, <1>8, <1>9, <1>10, <1>11 DEF IInv

\* The news of the end goes behind what is due already and ahead of a timer that is not.
LEMMA EndLongStep == ASSUME IInv, EndLong PROVE IInv'
<1>1. /\ main = "end" /\ main' = "idle"
      /\ queue' = Send(queue, FINISHED, count, 0)
      /\ ran' = [ran EXCEPT ![count] = age]
      /\ crossed' = (IF \E k \in DOMAIN queue : queue[k].obj = count /\ queue[k].what = STARTED
                                                  /\ queue[k].due > 0
                     THEN crossed \cup {count} ELSE crossed)
      /\ UNCHANGED <<stuckListener, stuckTimeLimit, printer, sets, count, age, costTime, monitor,
                     taken, reports, false_alarms>>
  BY DEF EndLong, setting, thread
<1>2. /\ TypeOK /\ count \in Msgs /\ age \in Nat /\ count \in Nat /\ queue \in Seq(Message)
      /\ Len(queue) \in Nat /\ DOMAIN queue = 1 .. Len(queue) /\ stuckTimeLimit \in Limits
  BY <1>1, OnTheWay DEF IInv, SentInv
<1>3. PICK at \in 1 .. Len(queue) + 1 : PutAt(at, FINISHED, count, 0)
  BY <1>1, <1>2, PutIn
<1> USE DEF PutAt
<1>4. ~Token(queue'[at]) /\ at \in 1 .. Len(queue')
  BY <1>3, Kinds DEF Token
<1>5. \A n \in Msgs : Sent(n) => Sent(n)'
  BY <1>1 DEF Sent
<1>6. TypeOK'
  BY <1>1, <1>2, <1>3 DEF TypeOK
<1>7. TakenInv'
  <2>1. ASSUME Token(taken), NEW k \in 1 .. Len(queue'), Token(queue'[k])
        PROVE  queue'[k].obj # taken.obj
    <3>1. k # at
      BY <1>4, <2>1
    <3>2. PICK i \in 1 .. Len(queue) : queue'[k] = queue[i]
      BY <1>3, <3>1
    <3> QED
      BY <2>1, <3>2 DEF IInv, TakenInv
  <2> QED
    BY <1>1, <2>1 DEF IInv, TakenInv
<1>8. SentInv'
  <2>1. Sent(count)
    BY <1>1 DEF Sent
  <2>2. \A j \in 1 .. Len(queue') : Sent(queue[j].obj)'
    <3> TAKE j \in 1 .. Len(queue')
    <3>1. queue'[j].obj \in Msgs /\ Sent(queue'[j].obj)
      BY <1>2, <1>3, <2>1, OnTheWay
    <3> QED
      BY <1>1, <3>1 DEF Sent
  <2>3. monitor' # "idle" => Sent(taken.obj)'
    BY <1>1 DEF IInv, SentInv, Sent
  <2>4. ASSUME NEW n \in Msgs, reports'[n] > 0
        PROVE  /\ Sent(n)' /\ reports'[n] = 1
               /\ \A k \in 1 .. Len(queue') : Token(queue'[k]) => queue'[k].obj # n
               /\ Token(taken') => taken'.obj # n
    <3>1. /\ Sent(n) /\ reports[n] = 1
          /\ \A k \in 1 .. Len(queue) : Token(queue[k]) => queue[k].obj # n
          /\ Token(taken) => taken.obj # n
      BY <1>1, <2>4 DEF IInv, SentInv
    <3>2. ASSUME NEW k \in 1 .. Len(queue'), Token(queue'[k]) PROVE queue'[k].obj # n
      <4>1. k # at
        BY <1>4, <3>2
      <4>2. PICK i \in 1 .. Len(queue) : queue'[k] = queue[i]
        BY <1>3, <4>1
      <4> QED
        BY <3>1, <3>2, <4>2
    <3> QED
      BY <1>1, <1>5, <3>1, <3>2
  <2> QED
    BY <1>1, <2>2, <2>3, <2>4 DEF SentInv
<1>9. ElapsedInv'
  BY <1>1 DEF ElapsedInv
<1>10. LimitInv'
  BY <1>1, <1>2, <1>3 DEF IInv, LimitInv
<1>11. EndedInv'
  <2> SUFFICES ASSUME NEW n \in Msgs, Ended(n)', n \notin crossed'
               PROVE  /\ StoppedAhead(queue', n, ran'[n], IsEnd(taken', n)) /\ StartedAhead(queue', n)
                      /\ taken'.obj = n /\ taken'.what = TIMEOUT => ran'[n] > taken'.limit
                      /\ taken'.obj = n /\ taken'.what = STARTED =>
                           \E j \in 1 .. Len(queue') : IsEnd(queue'[j], n)
    BY DEF EndedInv
  <2>1. CASE n = count
    <3>1. ran'[n] = age /\ IsEnd(queue'[at], n)
      BY <1>1, <1>2, <1>3, <2>1 DEF TypeOK, IsEnd
    <3>2. \A m : Elapsed(m) /\ m.what = TIMEOUT /\ m.due = 0 /\ m.limit \in Limits => age > m.limit
      <4> TAKE m
      <4> HAVE Elapsed(m) /\ m.what = TIMEOUT /\ m.due = 0 /\ m.limit \in Limits
      <4>1. m.limit \in Nat /\ Old > m.limit
        BY OldAssumption, LimitsAssumption
      <4>2. age >= Old \/ age + 0 >= DELAY + m.limit
        BY DEF Elapsed
      <4> QED
        BY <1>2, <4>1, <4>2, OldAssumption, DelaysAssumption
    <3>3. \A i \in 1 .. Len(queue) : queue[i].what = TIMEOUT /\ queue[i].obj = n /\ queue[i].due = 0
             => ran'[n] > queue[i].limit
      BY <1>1, <2>1, <3>1, <3>2 DEF IInv, ElapsedInv, LimitInv
    <3>4. \A i \in 1 .. Len(queue) : queue[i].what = STARTED /\ queue[i].obj = n => queue[i].due = 0
      BY <1>1, <1>2, <2>1, OnTheWay
    <3>5. \A k \in 1 .. Len(queue') : k > at => queue'[k].due > 0
      <4>1. 0 \in Nat /\ queue' \in Seq(Message) /\ Gapped(queue', at, queue)
            /\ \A i \in 1 .. Len(queue) : i < at <=> queue[i].due <= 0
        BY <1>3
      <4> QED
        BY <1>2, <4>1, BehindTheNew
    <3>6. \A k \in 1 .. Len(queue') : k < at => queue'[k].due = 0
      <4> TAKE k \in 1 .. Len(queue')
      <4> HAVE k < at
      <4>1. queue'[k] \in Message
        BY <1>3
      <4>2. queue'[k].due <= queue'[at].due
        BY <1>3, <1>4 DEF QueueInv
      <4> QED
        BY <1>3, <4>1, <4>2 DEF Message
    <3>7. StoppedAhead(queue', n, ran'[n], IsEnd(taken', n))
      <4> SUFFICES ASSUME NEW k \in 1 .. Len(queue'), queue'[k].what = TIMEOUT /\ queue'[k].obj = n
                   PROVE  ran'[n] > queue'[k].limit
                            \/ \E j \in 1 .. Len(queue') : j < k /\ IsEnd(queue'[j], n)
        BY DEF StoppedAhead
      <4>1. k # at
        BY <1>3, Kinds
      <4>2. CASE k > at
        BY <1>4, <3>1, <4>2
      <4>3. CASE k < at
        <5>1. PICK i \in 1 .. Len(queue) : queue'[k] = queue[i]
          BY <1>3, <4>1
        <5>2. queue[i].due = 0
          BY <3>6, <4>3, <5>1
        <5> QED
          BY <3>3, <5>1, <5>2
      <4> QED
        BY <4>1, <4>2, <4>3
    <3>8. StartedAhead(queue', n)
      <4> SUFFICES ASSUME NEW k \in 1 .. Len(queue'), queue'[k].what = STARTED /\ queue'[k].obj = n
                   PROVE  \E j \in 1 .. Len(queue') : k < j /\ IsEnd(queue'[j], n)
        BY DEF StartedAhead
      <4>1. k # at
        BY <1>3, Kinds
      <4>2. queue'[k].due = 0
        <5>1. PICK i \in 1 .. Len(queue) : queue'[k] = queue[i]
          BY <1>3, <4>1
        <5> QED
          BY <3>4, <5>1
      <4>3. k < at
        <5>1. k \in Int /\ at \in Int
          BY <1>2, <1>3
        <5> QED
          BY <3>5, <4>1, <4>2, <5>1
      <4> QED
        BY <1>4, <3>1, <4>3
    <3>9. taken'.obj = n /\ taken'.what = TIMEOUT => ran'[n] > taken'.limit
      <4> SUFFICES ASSUME taken.obj = n, taken.what = TIMEOUT PROVE ran'[n] > taken.limit
        BY <1>1
      <4>1. monitor # "idle"
        BY OnTheWay DEF TIMEOUT
      <4>2. Elapsed(taken) /\ taken.due = 0 /\ taken.limit \in Limits
        BY <1>1, <2>1, <4>1 DEF IInv, ElapsedInv, TakenInv, LimitInv
      <4> QED
        BY <3>1, <3>2, <4>2
    <3> QED
      BY <1>4, <3>1, <3>7, <3>8, <3>9
  <2>2. CASE n # count
    <3>1. Ended(n) /\ n \notin crossed /\ ran'[n] = ran[n]
      BY <1>1, <1>2, <2>2 DEF Ended, TypeOK
    <3>2. /\ StoppedAhead(queue, n, ran[n], IsEnd(taken, n)) /\ StartedAhead(queue, n)
          /\ taken.obj = n /\ taken.what = TIMEOUT => ran[n] > taken.limit
          /\ taken.obj = n /\ taken.what = STARTED =>
               \E j \in 1 .. Len(queue) : IsEnd(queue[j], n)
      BY <3>1 DEF IInv, EndedInv
    <3>3. StoppedAhead(queue', n, ran[n], IsEnd(taken, n)) /\ StartedAhead(queue', n)
      BY <1>2, <1>3, <2>2, <3>2, Kinds, LongEnded
    <3>4. (\E j \in 1 .. Len(queue) : IsEnd(queue[j], n))
            => \E j \in 1 .. Len(queue') : IsEnd(queue'[j], n)
      BY <1>3
    <3> QED
      BY <1>1, <3>1, <3>2, <3>3, <3>4
  <2> QED
    BY <2>1, <2>2
<1> QED
  BY <1>1, <1>3, <1>6, <1>7, <1>8, <1>9, <1>10, <1>11 DEF IInv

-----------------------------------------------------------------------------
(* The theorems.                                                           *)

\* In every reachable state of the monitor a message of the looper has at most one
\* token on its way, which is no faster than the clock, and once the message has ended
\* in time for it, the news of the end comes before its timer.
THEOREM Invariant == Spec => []IInv
<1>1. ASSUME IInv, [Next]_vars PROVE IInv'
  <2>1. CASE SetListener \/ SetPrinter \/ UNCHANGED vars
    BY <1>1, <2>1, SettingStep
  <2>2. CASE Dispatching \/ Finished
    BY <1>1, <2>2, DispatchingStep, FinishedStep
  <2>3. CASE MainStep
    BY <1>1, <2>3, SendStartedStep, EndShortStep, EndLongStep, EndLoggedStep DEF MainStep
  <2>4. CASE MonitorStep
    BY <1>1, <2>4, TakeStep, HandleStartedStep, HandleFinishedStep, HandleTimeoutStep, OnStuckStep
    DEF MonitorStep
  <2>5. CASE Tick
    BY <1>1, <2>5, TickStep
  <2> QED
    BY <1>1, <2>1, <2>2, <2>3, <2>4, <2>5 DEF Next
<1> QED
  BY InitInv, <1>1, PTL DEF Spec

\* Whatever the delay, the limits and the number of messages, however slow the two
\* threads are and whenever the listener and the limit are changed: onStuck is called at
\* most once for a message, and only for one that takes or took longer than its limit
\* unless its end has crossed with its start, or was lost with the main thread.
THEOREM ReportsAreTrue == Spec => []ReportIsTrueUnlessCrossed
<1>1. IInv => ReportIsTrueUnlessCrossed
  <2> SUFFICES ASSUME IInv, NEW n \in Msgs PROVE reports[n] <= 1
    BY DEF IInv, ReportIsTrueUnlessCrossed
  <2>1. reports[n] \in Nat
    BY DEF IInv, TypeOK
  <2>2. reports[n] > 0 => reports[n] = 1
    BY DEF IInv, SentInv
  <2> QED
    BY <2>1, <2>2
<1> QED
  BY <1>1, Invariant, PTL
=============================================================================
