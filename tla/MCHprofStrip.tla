----------------------------- MODULE MCHprofStrip -----------------------------
(***************************************************************************)
(* Instances of HprofStrip for TLC: heap-dump records of up to three sub-  *)
(* records, one sample per kind and per case of ProcessHeap, in the orders *)
(* that open, close or cross a stripped range.                             *)
(***************************************************************************)
EXTENDS HprofStrip, SequencesExt

Sample(kind, n, type, table, sys) ==
    [kind |-> kind, n |-> n, type |-> type, table |-> table, sys |-> sys]

Simple(kind) == Sample(kind, 0, "object", 0, FALSE)

\* One sample per case of ProcessHeap and per size that matters to it.
AllSamples ==
    {Simple(k) : k \in RootKinds \cup {"obsolete", "unknown"}} \cup
    {Sample("class", 1, "object", 9, FALSE),
     Sample("instance", 3, "object", 0, FALSE),
     Sample("object_array", 1, "object", 0, FALSE),
     Sample("primitive_array", 0, "byte", 0, FALSE),
     Sample("primitive_array", 2, "char", 0, FALSE),
     Sample("primitive_array", 1, "long", 0, FALSE),
     Sample("heap_info", 0, "object", 0, TRUE),
     Sample("heap_info", 0, "object", 0, FALSE)}

\* Those that open, close or cross a stripped range.
FewSamples ==
    {r \in AllSamples : \/ r.kind \in {"heap_info", "instance"}
                        \/ r.kind = "primitive_array" /\ r.type = "char"}

\* A record grows by one sub-record at its end.
Grow(b, r) ==
    LET end == b.count + ArtSize(r)
    IN [b EXCEPT !.count = end,
                 !.sub = @ @@ (b.count :> r),
                 !.nth = @ @@ (end :> (b.nth[b.count] + 1))]

EmptyRecord ==
    [tag |-> "heap_dump", count |-> RecordHeader, sub |-> <<>>, nth |-> RecordHeader :> 1]

BufferOf(s) == FoldLeft(Grow, EmptyRecord, s)

Infos == {r \in FewSamples : r.kind = "heap_info"}

\* Every sample on its own, behind a heap info of either kind and before a
\* stripped range, and a heap that changes between two of the few samples.
MCBuffers ==
    {BufferOf(<<r>>) : r \in AllSamples}
      \cup {BufferOf(<<q, r>>) : q \in Infos, r \in AllSamples}
      \cup {BufferOf(<<q, r>>) : q \in AllSamples, r \in FewSamples \ Infos}
      \cup {BufferOf(<<q, info, r>>) : q \in FewSamples, info \in Infos, r \in FewSamples}
      \cup {EmptyRecord, [tag |-> "other", count |-> 12]}

MCStrstr == {<<"dir/a.hprof", "a.hprof">>}
=============================================================================
