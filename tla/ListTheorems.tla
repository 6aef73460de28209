----------------------------- MODULE ListTheorems -----------------------------
(***************************************************************************)
(* What ArrayList.remove leaves of a list without duplicates: lemmas about *)
(* RemoveFirst, on which the proofs about lists of listeners and of        *)
(* activities rest; and the first of several places in a list.             *)
(***************************************************************************)
EXTENDS Integers, SequencesExt, SequenceTheorems, NaturalsInduction, WellFoundedInduction, TLAPS

\* A set of numbers that is not empty has a least one.
LEMMA LeastOf ==
    ASSUME NEW S, S \subseteq Nat, S # {}
    PROVE  Min(S) \in S /\ \A x \in S : Min(S) <= x
<1>1. PICK x \in S : \A y \in S : <<y, x>> \notin OpToRel(<, Nat)
  <2>1. S \in SUBSET Nat
    OBVIOUS
  <2> QED
    BY <2>1, WFMin, NatLessThanWellFounded, Zenon
<1>2. \A y \in S : y \in Nat /\ x \in Nat /\ ~(y < x)
  BY <1>1, Zenon DEF OpToRel
<1>3. \E y \in S : \A z \in S : y =< z
  BY <1>2
<1> QED
  BY <1>3 DEF Min

\* No element twice.
Distinct(s) == \A i, j \in 1 .. Len(s) : s[i] = s[j] => i = j

\* The first element that is x is the only one.
LEMMA RemovedAt ==
    ASSUME NEW T, NEW s \in Seq(T), Distinct(s), NEW x, NEW k \in 1 .. Len(s), s[k] = x
    PROVE  RemoveFirst(s, x) = RemoveAt(s, k)
<1>1. {i \in 1 .. Len(s) : s[i] = x} = {k}
  BY DEF Distinct
<1>2. Min({k}) = k
  BY DEF Min
<1> QED
  BY <1>1, <1>2 DEF RemoveFirst, SelectInSeq

\* RemoveAt closes the gap.
LEMMA GapClosed ==
    ASSUME NEW T, NEW s \in Seq(T), NEW k \in 1 .. Len(s)
    PROVE  /\ RemoveAt(s, k) \in Seq(T)
           /\ Len(RemoveAt(s, k)) = Len(s) - 1
           /\ \A i \in 1 .. Len(s) - 1 :
                RemoveAt(s, k)[i] = IF i < k THEN s[i] ELSE s[i + 1]
<1> DEFINE front == SubSeq(s, 1, k - 1)
           back  == SubSeq(s, k + 1, Len(s))
<1>1. front \in Seq(T) /\ Len(front) = k - 1 /\ \A i \in 1 .. k - 1 : front[i] = s[i]
  OBVIOUS
<1>2. /\ back \in Seq(T) /\ Len(back) = Len(s) - k
      /\ \A i \in 1 .. Len(s) - k : back[i] = s[k + i]
  OBVIOUS
<1>3. /\ front \o back \in Seq(T) /\ Len(front \o back) = Len(s) - 1
      /\ \A i \in 1 .. k - 1 : (front \o back)[i] = s[i]
      /\ \A i \in k .. Len(s) - 1 : (front \o back)[i] = back[i - (k - 1)]
  <2> HIDE DEF front, back
  <2>1. /\ front \o back \in Seq(T) /\ Len(front \o back) = Len(front) + Len(back)
        /\ \A i \in 1 .. Len(front) + Len(back) :
             (front \o back)[i] = IF i <= Len(front) THEN front[i] ELSE back[i - Len(front)]
    BY <1>1, <1>2, ConcatProperties
  <2>2. Len(front) = k - 1 /\ Len(front) + Len(back) = Len(s) - 1 /\ Len(s) \in Nat
    BY <1>1, <1>2
  <2>3. \A i \in 1 .. k - 1 : (front \o back)[i] = s[i]
    BY <1>1, <2>1, <2>2
  <2>4. \A i \in k .. Len(s) - 1 : (front \o back)[i] = back[i - (k - 1)]
    BY <2>1, <2>2
  <2> QED
    BY <2>1, <2>2, <2>3, <2>4
<1>4. \A i \in k .. Len(s) - 1 : i - (k - 1) \in 1 .. Len(s) - k /\ k + (i - (k - 1)) = i + 1
  OBVIOUS
<1>5. RemoveAt(s, k) = front \o back
  BY DEF RemoveAt
<1> HIDE DEF front, back
<1>6. \A i \in 1 .. Len(s) - 1 : (front \o back)[i] = IF i < k THEN s[i] ELSE s[i + 1]
  <2> TAKE i \in 1 .. Len(s) - 1
  <2>1. CASE i < k
    BY <1>3, <2>1
  <2>2. CASE i >= k
    BY <1>2, <1>3, <1>4, <2>2
  <2>3. i < k \/ i >= k
    OBVIOUS
  <2> QED
    BY <2>1, <2>2, <2>3
<1> QED
  BY <1>3, <1>5, <1>6

\* Removing what is not there changes nothing.
LEMMA NotRemoved ==
    ASSUME NEW T, NEW s \in Seq(T), NEW x, x \notin ToSet(s)
    PROVE  RemoveFirst(s, x) = s
BY DEF RemoveFirst, ToSet

\* Of a list without duplicates x is gone and everything else still there.
LEMMA Removed ==
    ASSUME NEW T, NEW s \in Seq(T), Distinct(s), NEW x, x \in ToSet(s)
    PROVE  /\ RemoveFirst(s, x) \in Seq(T)
           /\ Distinct(RemoveFirst(s, x))
           /\ ToSet(RemoveFirst(s, x)) = ToSet(s) \ {x}
           /\ Len(RemoveFirst(s, x)) = Len(s) - 1
<1>1. PICK k \in 1 .. Len(s) : s[k] = x
  BY DEF ToSet
<1>2. RemoveFirst(s, x) = RemoveAt(s, k)
  BY <1>1, RemovedAt
<1> DEFINE r == RemoveAt(s, k)
<1>3. /\ r \in Seq(T) /\ Len(r) = Len(s) - 1
      /\ \A i \in 1 .. Len(s) - 1 : r[i] = IF i < k THEN s[i] ELSE s[i + 1]
  BY GapClosed
<1> HIDE DEF r
<1>4. Distinct(r)
  <2> DEFINE place(i) == IF i < k THEN i ELSE i + 1
  <2>1. \A i \in 1 .. Len(s) - 1 : place(i) \in 1 .. Len(s) /\ r[i] = s[place(i)]
    BY <1>3
  <2>2. \A i, j \in 1 .. Len(s) - 1 : place(i) = place(j) => i = j
    OBVIOUS
  <2> HIDE DEF place
  <2>3. \A i, j \in 1 .. Len(s) - 1 : r[i] = r[j] => place(i) = place(j)
    BY <2>1 DEF Distinct
  <2>4. \A i, j \in 1 .. Len(s) - 1 : r[i] = r[j] => i = j
    BY <2>2, <2>3
  <2> QED
    BY <1>3, <2>4 DEF Distinct
<1>5. ToSet(r) = ToSet(s) \ {x}
  <2>1. ASSUME NEW y \in ToSet(r) PROVE y \in ToSet(s) \ {x}
    <3>1. PICK i \in 1 .. Len(r) : r[i] = y
      BY <1>3 DEF ToSet
    <3>2. PICK j \in 1 .. Len(s) : s[j] = y /\ j # k
      BY <1>3, <3>1
    <3> QED
      BY <1>1, <3>2 DEF ToSet, Distinct
  <2>2. ASSUME NEW y \in ToSet(s) \ {x} PROVE y \in ToSet(r)
    <3>1. PICK i \in 1 .. Len(s) : s[i] = y /\ i # k
      BY <1>1, <2>2 DEF ToSet
    <3>2. PICK j \in 1 .. Len(r) : r[j] = y
      <4>1. CASE i < k
        BY <4>1, <3>1, <1>3
      <4>2. CASE i > k
        <5>1. i - 1 \in 1 .. Len(r) /\ r[i - 1] = y
          BY <4>2, <3>1, <1>3
        <5> QED
          BY <5>1
      <4> QED
        BY <3>1, <4>1, <4>2
    <3> QED
      BY <1>3, <3>2 DEF ToSet
  <2> QED
    BY <2>1, <2>2
<1> QED
  BY <1>2, <1>3, <1>4, <1>5 DEF r

\* What is added to the end of a list, and was not in it, is in it once.
LEMMA Appended ==
    ASSUME NEW T, NEW s \in Seq(T), Distinct(s), NEW x \in T, x \notin ToSet(s)
    PROVE  /\ Append(s, x) \in Seq(T)
           /\ Distinct(Append(s, x))
           /\ ToSet(Append(s, x)) = ToSet(s) \cup {x}
           /\ Len(Append(s, x)) = Len(s) + 1
<1> DEFINE r == Append(s, x)
<1>1. /\ r \in Seq(T) /\ Len(r) = Len(s) + 1
      /\ r[Len(s) + 1] = x /\ \A i \in 1 .. Len(s) : r[i] = s[i]
  OBVIOUS
<1>2. \A i \in 1 .. Len(s) : s[i] # x
  BY DEF ToSet
<1>3. Distinct(r)
  BY <1>1, <1>2 DEF Distinct
<1>4. ToSet(r) = {r[i] : i \in 1 .. Len(s) + 1} /\ ToSet(s) = {s[i] : i \in 1 .. Len(s)}
  BY <1>1 DEF ToSet
<1>5. 1 .. Len(s) + 1 = (1 .. Len(s)) \cup {Len(s) + 1}
  OBVIOUS
<1>6. ToSet(r) = ToSet(s) \cup {x}
  BY <1>1, <1>4, <1>5
<1> QED
  BY <1>1, <1>3, <1>6
=============================================================================
