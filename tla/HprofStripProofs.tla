--------------------------- MODULE HprofStripProofs ---------------------------
(***************************************************************************)
(* Proofs about HprofStrip, for every set of buffers, files and bounds:    *)
(* the parser keeps to the boundaries of the sub-records, the strips are   *)
(* in order and cover exactly the bytes that need not be kept, and what is *)
(* written is the rest, in order, under a length that fits it.             *)
(***************************************************************************)
EXTENDS HprofStrip, FiniteSetTheorems, TLAPS

-----------------------------------------------------------------------------
(* The sizes ProcessHeap adds up.                                          *)

LEMMA BasicTypeSize == \A t : GetByteSizeFromType(t) \in Nat
  BY DEF GetByteSizeFromType

\* A sub-record is at least its tag byte long.
LEMMA ArtSizePositive ==
  ASSUME NEW r \in SubRecord
  PROVE  ArtSize(r) \in Nat \ {0}
<1>1. r.n \in Nat /\ r.table \in Nat /\ r.kind \in Kinds
  BY DEF SubRecord
<1>2. GetByteSizeFromType(r.type) * r.n \in Nat
  BY <1>1, BasicTypeSize
<1>3. QED
  BY <1>1, <1>2, SMTT(30) DEF ArtSize, Kinds, RootKinds

\* Every case of ProcessHeap goes on at the end of its sub-record.
LEMMA CodeSizes ==
  ASSUME NEW r \in SubRecord, NEW o \in Nat
  PROVE  /\ r.kind \in RootKinds => o + RootBytes(r.kind) = o + ArtSize(r)
         /\ r.kind = "class" => ClassEnd(o, r) = o + ArtSize(r)
         /\ r.kind = "instance" => InstanceEnd(o, r) = o + ArtSize(r)
         /\ r.kind = "object_array" => ObjectArrayEnd(o, r) = o + ArtSize(r)
         /\ r.kind = "primitive_array" =>
              /\ PrimitiveArrayEnd(o, r) = o + ArtSize(r)
              /\ PrimitiveArrayData(o) \in o .. PrimitiveArrayEnd(o, r)
         /\ r.kind = "heap_info" =>
              o + HEAP_TAG_BYTE_SIZE + HEAP_TYPE_BYTE_SIZE + STRING_ID_BYTE_SIZE
                = o + ArtSize(r)
         /\ r.kind = "obsolete" => o + HEAP_TAG_BYTE_SIZE = o + ArtSize(r)
<1> USE DEF HEAP_TAG_BYTE_SIZE, OBJECT_ID_BYTE_SIZE, JNI_GLOBAL_REF_ID_BYTE_SIZE,
            CLASS_ID_BYTE_SIZE, CLASS_LOADER_ID_BYTE_SIZE, INSTANCE_SIZE_BYTE_SIZE,
            CONSTANT_POOL_LENGTH_BYTE_SIZE, STATIC_FIELD_LENGTH_BYTE_SIZE,
            INSTANCE_FIELD_LENGTH_BYTE_SIZE, STACK_TRACE_SERIAL_NUMBER_BYTE_SIZE,
            STRING_ID_BYTE_SIZE, THREAD_SERIAL_BYTE_SIZE, BASIC_TYPE_BYTE_SIZE,
            HEAP_TYPE_BYTE_SIZE, U4
<1>1. r.n \in Nat /\ r.table \in Nat
  BY DEF SubRecord
<1>2. r.kind \in RootKinds => RootBytes(r.kind) = ArtSize(r)
  BY DEF RootKinds, RootBytes, ArtSize
<1>3. r.kind = "class" => ClassEnd(o, r) = o + ArtSize(r)
  BY <1>1 DEF ClassEnd, ArtSize
<1>4. r.kind = "instance" => InstanceEnd(o, r) = o + ArtSize(r)
  BY <1>1 DEF InstanceEnd, ArtSize
<1>5. r.kind = "object_array" => ObjectArrayEnd(o, r) = o + ArtSize(r)
  BY <1>1 DEF ObjectArrayEnd, ArtSize
<1>6. r.kind = "primitive_array" =>
        /\ PrimitiveArrayEnd(o, r) = o + ArtSize(r)
        /\ PrimitiveArrayData(o) \in o .. PrimitiveArrayEnd(o, r)
  <2>1. GetByteSizeFromType(r.type) * r.n \in Nat
    BY <1>1, BasicTypeSize
  <2>2. QED
    BY <2>1 DEF PrimitiveArrayEnd, PrimitiveArrayData, ArtSize
<1>7. r.kind = "heap_info" => ArtSize(r) = 9
  BY DEF ArtSize
<1>8. r.kind = "obsolete" => ArtSize(r) = 1
  BY DEF ArtSize
<1>9. QED
  BY <1>2, <1>3, <1>4, <1>5, <1>6, <1>7, <1>8

-----------------------------------------------------------------------------
(* The inductive invariant.                                                *)

\* Between calls there is no buffer.
IdleInv == phase = "idle" => buf = NoBuffer

\* While it parses, the strips lie before first_index, and there are fewer of
\* them than sub-records.
ParseInv ==
    phase = "parse" =>
        /\ buf.tag = "heap_dump"
        /\ first_index \in Starts(buf) \cup {buf.count}
        /\ Len(strip_list) < buf.nth[first_index]
        /\ \A k \in 1 .. Len(strip_list) : strip_list[k][2] <= first_index

ListInv ==
    /\ phase \in {"parse", "scan", "write"} => out \in Seq(Nat \X Nat)
    /\ phase = "parse" => i = 0 /\ start_index = 0 /\ out = <<>>

\* Where the bytes written so far end.
Done == IF phase = "write" THEN PieceEnd - left ELSE start_index

\* While it writes, it stands at the end of strip i and has written up to there.
WriteInv ==
    phase \in {"scan", "write"} =>
        /\ i <= Len(strip_list)
        /\ start_index = (IF i = 0 THEN 0 ELSE strip_list[i][2])
        /\ phase = "write" => left \in 1 .. (PieceEnd - start_index)
        /\ out # <<>> => out[Len(out)][2] <= Done

\* The call under way writes to the hprof file, and is one MaxWrites allows.
CallInv ==
    /\ phase \in {"parse", "scan", "write"} => fd = hprof_fd_
    /\ phase # "idle" => fd # NoFd
    /\ phase # "idle" /\ fd = hprof_fd_ => hook_write_serial_num_ < MaxWrites

\* Until it is closed, the remembered descriptor is one of the hprof file.
NameInv == hprof_fd_ # NoFd /\ ~stale => IsHprof(path_of[hprof_fd_])

\* A call that was passed through has written all of its buffer.
PassInv == phase = "return" /\ fd # hprof_fd_ => out = << <<0, buf.count>> >>

IInv ==
    /\ TypeOK /\ CallInv /\ NameInv /\ PassInv /\ buf \in Buffers \cup {NoBuffer}
    /\ IdleInv /\ ParseInv /\ ListInv /\ WriteInv
    /\ StripsOrdered /\ NoStripOverflow /\ OutputInOrder

USE DEF name_vars, args, strips, writing

LEMMA NoBufferType == IsBuffer(NoBuffer)
<1>1. NoBuffer.tag = "other" /\ NoBuffer.count = 0
  BY DEF NoBuffer
<1>2. QED
  BY <1>1 DEF IsBuffer

LEMMA InitInv == Init => IInv
<1> SUFFICES ASSUME Init PROVE IInv
  OBVIOUS
<1>1. TypeOK
  <2>1. IsBuffer(buf)
    BY NoBufferType DEF Init
  <2>2. path_of \in [Fds -> Paths \cup {NoPath}]
    BY DEF Init
  <2>3. is_current_system_heap_ \in BOOLEAN /\ stream_heap \in BOOLEAN /\ stale \in BOOLEAN
    BY DEF Init
  <2>4. hook_write_serial_num_ \in 0 .. MaxWrites
    BY BoundsAssumption DEF Init
  <2>5. strip_list \in Seq(Nat \X Nat) /\ out \in Seq(Nat \X Nat)
    BY DEF Init
  <2>6. QED
    BY <2>1, <2>2, <2>3, <2>4, <2>5 DEF Init, TypeOK
<1>2. QED
  BY <1>1, BoundsAssumption
  DEF Init, IInv, CallInv, NameInv, PassInv, IdleInv, ParseInv, ListInv, WriteInv, StripsOrdered, NoStripOverflow,
      OutputInOrder

\* The shape all cases of ProcessHeap share: go on at the end of the sub-record,
\* adding at most one strip that ends there.
ProcessHeapCase ==
    /\ At(first_index, Kinds)
    /\ first_index' = first_index + ArtSize(buf.sub[first_index])
    /\ \/ strip_list' = strip_list
       \/ \E from \in first_index .. first_index' : Strip(from, first_index')
    /\ strip_bytes_sum_' \in Nat
    /\ is_current_system_heap_' \in BOOLEAN
    /\ UNCHANGED ParseKeeps

\* Every action of ProcessHeap has that shape.
LEMMA CasesOfProcessHeap ==
  ASSUME IInv, ProcessHeap
  PROVE  ProcessHeapCase
<1> DEFINE r == buf.sub[first_index]
           end == first_index + ArtSize(r)
<1>1. phase = "parse" /\ first_index \in Starts(buf) /\ first_index < buf.count
  BY DEF ProcessHeap, At, SkipRoot, SkipClass, InstanceDump, ObjectArrayDump,
         PrimitiveArrayDump, HeapDumpInfo, SkipObsolete
<1>2. r \in SubRecord /\ first_index \in Nat
  BY <1>1 DEF IInv, ParseInv, TypeOK, IsBuffer
<1>3. r.kind \in Kinds
  BY <1>2 DEF SubRecord
<1>4. ArtSize(r) \in Nat \ {0} /\ end \in Nat
  BY <1>2, ArtSizePositive
<1>5. strip_bytes_sum_ \in Nat /\ is_current_system_heap_ \in BOOLEAN
  BY DEF IInv, TypeOK
<1>6. At(first_index, Kinds)
  BY <1>1, <1>3 DEF At
<1> HIDE DEF r, end
<1>7. CASE SkipRoot
  <2>1. first_index' = end /\ strip_list' = strip_list /\ UNCHANGED ParseKeeps
    BY <1>7, <1>2, CodeSizes DEF SkipRoot, At, r, end
  <2>2. QED
    BY <2>1, <1>5, <1>6, <1>7 DEF ProcessHeapCase, SkipRoot, r, end
<1>8. CASE SkipClass
  <2>1. first_index' = end /\ strip_list' = strip_list /\ UNCHANGED ParseKeeps
    BY <1>8, <1>2, CodeSizes DEF SkipClass, At, r, end
  <2>2. QED
    BY <2>1, <1>5, <1>6, <1>8 DEF ProcessHeapCase, SkipClass, r, end
<1>9. ASSUME StripInSystemHeap(end)
      PROVE  ProcessHeapCase
  <2>1. first_index' = end /\ UNCHANGED ParseKeeps /\ UNCHANGED is_current_system_heap_
    BY <1>9 DEF StripInSystemHeap
  <2>2. CASE is_current_system_heap_
    <3>1. Strip(first_index, first_index') /\ first_index \in first_index .. first_index'
      BY <1>9, <2>1, <2>2, <1>2, <1>4 DEF StripInSystemHeap, end
    <3>2. strip_bytes_sum_' \in Nat
      BY <1>9, <2>2, <1>2, <1>4, <1>5 DEF StripInSystemHeap, end
    <3>3. QED
      BY <3>1, <3>2, <2>1, <1>5, <1>6 DEF ProcessHeapCase, r, end
  <2>3. CASE ~is_current_system_heap_
    BY <1>9, <2>1, <2>3, <1>5, <1>6 DEF ProcessHeapCase, StripInSystemHeap, r, end
  <2>4. QED
    BY <2>2, <2>3
<1>10. CASE InstanceDump
  <2>1. StripInSystemHeap(end)
    BY <1>10, <1>2, CodeSizes DEF InstanceDump, At, r, end
  <2>2. QED
    BY <2>1, <1>9
<1>11. CASE ObjectArrayDump
  <2>1. StripInSystemHeap(end)
    BY <1>11, <1>2, CodeSizes DEF ObjectArrayDump, At, r, end
  <2>2. QED
    BY <2>1, <1>9
<1>12. CASE PrimitiveArrayDump
  <2>1. PrimitiveArrayEnd(first_index, r) = end /\ PrimitiveArrayData(first_index) \in first_index .. end
    BY <1>12, <1>2, CodeSizes DEF PrimitiveArrayDump, At, r, end
  <2>2. first_index' = end /\ UNCHANGED ParseKeeps /\ UNCHANGED is_current_system_heap_
    BY <1>12, <2>1 DEF PrimitiveArrayDump, r
  <2>3. \E from \in first_index .. first_index' : Strip(from, first_index')
    <3>1. CASE is_current_system_heap_
      <4>1. Strip(first_index, end)
        BY <1>12, <2>1, <3>1 DEF PrimitiveArrayDump, r
      <4>2. QED
        BY <4>1, <2>2, <1>2, <1>4 DEF end
    <3>2. CASE ~is_current_system_heap_
      <4>1. Strip(PrimitiveArrayData(first_index), end)
        BY <1>12, <2>1, <3>2 DEF PrimitiveArrayDump, r
      <4>2. QED
        BY <4>1, <2>1, <2>2
    <3>3. QED
      BY <3>1, <3>2
  <2>4. strip_bytes_sum_' \in Nat
    BY <1>12, <2>1, <1>2, <1>4, <1>5 DEF PrimitiveArrayDump, r, end
  <2>5. QED
    BY <2>2, <2>3, <2>4, <1>5, <1>6 DEF ProcessHeapCase, r, end
<1>13. CASE HeapDumpInfo
  <2>1. is_current_system_heap_' \in BOOLEAN
    BY <1>13, <1>2 DEF HeapDumpInfo, SubRecord, r
  <2>2. first_index' = end /\ UNCHANGED ParseKeeps
    BY <1>13, <1>2, CodeSizes DEF HeapDumpInfo, At, r, end
  <2>3. CASE is_current_system_heap_'
    <3>1. Strip(first_index, end) /\ strip_bytes_sum_' = strip_bytes_sum_ + (end - first_index)
      BY <1>13, <1>2, <2>3, CodeSizes DEF HeapDumpInfo, At, r, end
    <3>2. strip_bytes_sum_' \in Nat
      BY <3>1, <1>2, <1>4, <1>5 DEF end
    <3>3. first_index \in first_index .. end
      BY <1>2, <1>4 DEF end
    <3>4. QED
      BY <3>1, <3>2, <3>3, <2>1, <2>2, <1>6 DEF ProcessHeapCase, r, end
  <2>4. CASE ~is_current_system_heap_'
    BY <1>13, <2>1, <2>2, <2>4, <1>5, <1>6 DEF ProcessHeapCase, HeapDumpInfo, r, end
  <2>5. QED
    BY <2>3, <2>4
<1>14. CASE SkipObsolete
  <2>1. first_index' = end /\ strip_list' = strip_list /\ UNCHANGED ParseKeeps
    BY <1>14, <1>2, CodeSizes DEF SkipObsolete, At, r, end
  <2>2. QED
    BY <2>1, <1>5, <1>6, <1>14 DEF ProcessHeapCase, SkipObsolete, r, end
<1>15. QED
  BY <1>7, <1>8, <1>10, <1>11, <1>12, <1>13, <1>14 DEF ProcessHeap

\* Adding a strip that starts where the parser stands keeps the list in order.
LEMMA AppendStrip ==
  ASSUME strip_list \in Seq(Nat \X Nat), Ordered(strip_list, buf.count),
         NEW from \in Nat, NEW to \in Nat,
         RecordHeader <= from, from <= to, to <= buf.count, buf.count \in Nat,
         \A k \in 1 .. Len(strip_list) : strip_list[k][2] <= from,
         Strip(from, to)
  PROVE  /\ strip_list' \in Seq(Nat \X Nat)
         /\ Len(strip_list') = Len(strip_list) + 1
         /\ Ordered(strip_list', buf.count)
         /\ \A k \in 1 .. Len(strip_list') : strip_list'[k][2] <= to
<1> DEFINE n == Len(strip_list)
<1>0. n \in Nat
  OBVIOUS
<1>1. strip_list' = Append(strip_list, <<from, to>>)
  BY DEF Strip
<1>2. /\ strip_list' \in Seq(Nat \X Nat)
      /\ n \in Nat
      /\ Len(strip_list') = n + 1
      /\ \A k \in 1 .. n : strip_list'[k] = strip_list[k]
      /\ strip_list'[n + 1] = <<from, to>>
  BY <1>1
<1>3. \A k \in 1 .. n : strip_list[k] \in Nat \X Nat
  OBVIOUS
<1>4. \A k \in 1 .. n : strip_list'[k][2] <= from
  BY <1>2
<1>5. strip_list'[n + 1][1] = from /\ strip_list'[n + 1][2] = to
  BY <1>2
<1> HIDE DEF n
<1>6. \A k \in 1 .. n + 1 :
        /\ RecordHeader <= strip_list'[k][1]
        /\ strip_list'[k][1] <= strip_list'[k][2]
        /\ strip_list'[k][2] <= buf.count
  <2> SUFFICES ASSUME NEW k \in 1 .. n + 1
               PROVE  /\ RecordHeader <= strip_list'[k][1]
                      /\ strip_list'[k][1] <= strip_list'[k][2]
                      /\ strip_list'[k][2] <= buf.count
    OBVIOUS
  <2>1. CASE k = n + 1
    BY <2>1, <1>5
  <2>2. CASE k \in 1 .. n
    BY <2>2, <1>2 DEF Ordered, n
  <2>3. QED
    BY <2>1, <2>2, <1>2
<1>7. \A k \in 1 .. n : strip_list'[k][2] <= strip_list'[k + 1][1]
  <2> SUFFICES ASSUME NEW k \in 1 .. n
               PROVE  strip_list'[k][2] <= strip_list'[k + 1][1]
    OBVIOUS
  <2>1. CASE k = n
    BY <2>1, <1>4, <1>5, <1>2
  <2>2. CASE k \in 1 .. n - 1
    <3>1. k \in 1 .. n /\ k + 1 \in 1 .. n
      BY <2>2, <1>0
    <3>2. strip_list[k][2] <= strip_list[k + 1][1]
      BY <2>2 DEF Ordered, n
    <3>3. QED
      BY <3>1, <3>2, <1>2
  <2>3. QED
    BY <2>1, <2>2, <1>2
<1>8. Ordered(strip_list', buf.count)
  BY <1>2, <1>6, <1>7 DEF Ordered
<1>9. \A k \in 1 .. n + 1 : strip_list'[k][2] <= to
  <2> SUFFICES ASSUME NEW k \in 1 .. n + 1 PROVE strip_list'[k][2] <= to
    OBVIOUS
  <2>1. CASE k = n + 1
    BY <2>1, <1>5
  <2>2. CASE k \in 1 .. n
    <3>1. strip_list'[k][2] <= from
      BY <2>2, <1>4
    <3>2. strip_list[k][2] \in Nat /\ strip_list'[k] = strip_list[k]
      BY <2>2, <1>2, <1>3
    <3>3. strip_list'[k][2] \in Nat
      BY <3>2
    <3>4. QED
      BY <3>1, <3>3
  <2>3. QED
    BY <2>1, <2>2, <1>2
<1>10. QED
  BY <1>2, <1>8, <1>9 DEF n

LEMMA ParseStep ==
  ASSUME IInv, ProcessHeapCase
  PROVE  IInv'
<1> DEFINE o == first_index
           end == o + ArtSize(buf.sub[o])
<1>1. /\ phase = "parse" /\ buf.tag = "heap_dump" /\ IsBuffer(buf)
      /\ o \in Starts(buf) /\ o \in Nat /\ first_index' = end
      /\ UNCHANGED ParseKeeps
  BY DEF ProcessHeapCase, At, IInv, ParseInv, TypeOK
<1>2. /\ end \in Starts(buf) \cup {buf.count}
      /\ buf.nth[end] = buf.nth[o] + 1
      /\ buf.count \in Nat /\ buf.sub[o] \in SubRecord
      /\ Starts(buf) \subseteq RecordHeader .. (buf.count - 1)
      /\ buf.nth[o] \in 1 .. (StripCapacity + 1)
      /\ buf.nth[end] \in 1 .. (StripCapacity + 1)
  BY <1>1 DEF IsBuffer
<1>3. RecordHeader = 9
  BY DEF RecordHeader, HEAP_TAG_BYTE_SIZE, RECORD_TIME_BYTE_SIZE, RECORD_LENGTH_BYTE_SIZE
<1>4. end \in Nat /\ o < end /\ end <= buf.count /\ RecordHeader <= o
  BY <1>1, <1>2, <1>3, ArtSizePositive
<1>5. /\ strip_list \in Seq(Nat \X Nat) /\ Ordered(strip_list, buf.count) /\ StripCapacity \in Nat
      /\ Len(strip_list) < buf.nth[o]
      /\ \A k \in 1 .. Len(strip_list) : strip_list[k] \in Nat \X Nat /\ strip_list[k][2] <= o
  <2>1. strip_list \in Seq(Nat \X Nat) /\ Ordered(strip_list, buf.count) /\ ParseInv
    BY <1>1 DEF IInv, TypeOK, StripsOrdered
  <2>2. Len(strip_list) < buf.nth[o] /\ \A k \in 1 .. Len(strip_list) : strip_list[k][2] <= o
    BY <1>1, <2>1 DEF ParseInv
  <2>3. QED
    BY <2>1, <2>2, BoundsAssumption
<1> HIDE DEF o, end
<1>6. /\ strip_list' \in Seq(Nat \X Nat)
      /\ Len(strip_list') < buf.nth[end]
      /\ Ordered(strip_list', buf.count)
      /\ \A k \in 1 .. Len(strip_list') : strip_list'[k][2] <= end
  <2>1. CASE strip_list' = strip_list
    <3>2. Ordered(strip_list', buf.count)
      BY <2>1, <1>5
    <3>3. Len(strip_list) < buf.nth[end]
      BY <1>2, <1>5
    <3>4. \A k \in 1 .. Len(strip_list) : strip_list[k][2] <= end
      BY <1>1, <1>4, <1>5
    <3>5. QED
      BY <3>2, <3>3, <3>4, <2>1, <1>5
  <2>2. ASSUME NEW from \in o .. end, Strip(from, end)
        PROVE  <1>6!1 /\ <1>6!2 /\ <1>6!3 /\ <1>6!4
    <3>1. \A k \in 1 .. Len(strip_list) : strip_list[k][2] <= from
      BY <1>1, <1>4, <1>5
    <3>2. from \in Nat /\ RecordHeader <= from /\ from <= end
      BY <1>1, <1>3, <1>4
    <3>3. /\ strip_list' \in Seq(Nat \X Nat)
          /\ Len(strip_list') = Len(strip_list) + 1
          /\ Ordered(strip_list', buf.count)
          /\ \A k \in 1 .. Len(strip_list') : strip_list'[k][2] <= end
      BY <3>1, <3>2, <2>2, <1>2, <1>4, <1>5, AppendStrip
    <3>4. QED
      BY <3>3, <1>2, <1>5
  <2>3. QED
    BY <2>1, <2>2, <1>1 DEF ProcessHeapCase, o
<1>7. /\ UNCHANGED <<hprof_name_, hprof_fd_, path_of, stale, hook_write_serial_num_, phase, fd,
                     buf, record_length, i, start_index, left, out, disk, stream_heap>>
      /\ strip_bytes_sum_' \in Nat /\ is_current_system_heap_' \in BOOLEAN
  BY DEF ProcessHeapCase, ParseKeeps
<1>8. TypeOK'
  BY <1>1, <1>4, <1>6, <1>7 DEF IInv, TypeOK
<1>9. IdleInv' /\ ListInv' /\ WriteInv' /\ OutputInOrder'
  BY <1>1, <1>7 DEF IInv, IdleInv, ListInv, WriteInv, OutputInOrder
<1>10. ParseInv'
  BY <1>1, <1>2, <1>6, <1>7 DEF ParseInv
<1>11. NoStripOverflow' /\ StripsOrdered'
  BY <1>2, <1>5, <1>6, <1>7, SMTT(30) DEF NoStripOverflow, StripsOrdered
<1>12. CallInv' /\ NameInv' /\ PassInv'
  BY <1>1, <1>7 DEF IInv, CallInv, NameInv, PassInv, IsHprof
<1>13. QED
  BY <1>6, <1>7, <1>8, <1>9, <1>10, <1>11, <1>12 DEF IInv

-----------------------------------------------------------------------------
(* The other actions.                                                      *)

\* Opening a write, and every action that leaves the call's variables alone.
LEMMA HookWriteStep ==
  ASSUME IInv, NEW f \in Fds, NEW b \in Buffers, HookWriteInternal(f, b)
  PROVE  IInv'
<1>1. /\ IsBuffer(b) /\ b.count \in Nat /\ RecordHeader = 9
      /\ StripCapacity \in Nat
  <2>1. IsBuffer(b)
    BY BuffersAssumption
  <2>2. RecordHeader = 9
    BY DEF RecordHeader, HEAP_TAG_BYTE_SIZE, RECORD_TIME_BYTE_SIZE, RECORD_LENGTH_BYTE_SIZE
  <2>3. b.count \in Nat
    BY <2>1 DEF IsBuffer
  <2>4. QED
    BY <2>1, <2>2, <2>3, BoundsAssumption
<1>2. /\ strip_list' = <<>> /\ strip_bytes_sum_' = 0 /\ fd' = f /\ buf' = b
      /\ phase' = (IF b.tag = "heap_dump" THEN "parse" ELSE "scan")
      /\ first_index' = 9 /\ record_length' = b.count - 9
      /\ i' = 0 /\ start_index' = 0 /\ left' = 0 /\ out' = <<>>
      /\ UNCHANGED <<hprof_name_, hprof_fd_, path_of, stale, is_current_system_heap_,
                     hook_write_serial_num_, disk, stream_heap>>
  BY <1>1 DEF HookWriteInternal, reset
<1>3. /\ strip_list' \in Seq(Nat \X Nat) /\ out' \in Seq(Nat \X Nat)
      /\ record_length' \in Int
  BY <1>1, <1>2
<1>4. TypeOK'
  BY <1>1, <1>2, <1>3 DEF IInv, TypeOK
<1>5. ParseInv'
  <2> SUFFICES ASSUME phase' = "parse" PROVE ParseInv'
    BY DEF ParseInv
  <2>1. b.tag = "heap_dump"
    BY <1>2
  <2>2. /\ 9 \in Starts(b) \cup {b.count}
        /\ b.nth \in [Starts(b) \cup {b.count} -> 1 .. (StripCapacity + 1)]
    BY <1>1, <2>1 DEF IsBuffer
  <2>3. b.nth[9] \in 1 .. (StripCapacity + 1)
    BY <2>2
  <2>4. 0 < b.nth[9]
    BY <2>3, <1>1
  <2>5. Starts(buf)' = Starts(b)
    BY <1>2 DEF Starts
  <2>6. QED
    BY <1>2, <2>1, <2>2, <2>4, <2>5 DEF ParseInv
<1>6. IdleInv' /\ ListInv' /\ WriteInv' /\ OutputInOrder' /\ StripsOrdered' /\ NoStripOverflow'
  BY <1>1, <1>2, <1>3
  DEF IdleInv, ListInv, WriteInv, OutputInOrder, StripsOrdered, Ordered, NoStripOverflow
<1>7. CallInv' /\ NameInv' /\ PassInv'
  <2>1. f = hprof_fd_ /\ hook_write_serial_num_ < MaxWrites /\ f # NoFd
    BY FdsAssumption DEF HookWriteInternal, NoFd
  <2>2. QED
    BY <1>2, <2>1 DEF IInv, CallInv, NameInv, PassInv, IsHprof
<1>8. QED
  BY <1>2, <1>4, <1>5, <1>6, <1>7 DEF IInv

LEMMA PassThroughStep ==
  ASSUME IInv, NEW f \in Fds, NEW b \in Buffers, PassThrough(f, b)
  PROVE  IInv'
<1>1. IsBuffer(b) /\ b.count \in Nat
  <2>1. IsBuffer(b)
    BY BuffersAssumption
  <2>2. QED
    BY <2>1 DEF IsBuffer
<1>2. /\ phase = "idle" /\ phase' = "return" /\ fd' = f /\ buf' = b
      /\ out' = << <<0, b.count>> >>
      /\ UNCHANGED <<hprof_name_, hprof_fd_, path_of, stale, is_current_system_heap_,
                     hook_write_serial_num_, first_index, strip_list, strip_bytes_sum_,
                     record_length, i, start_index, left, disk, stream_heap>>
  BY DEF PassThrough
<1>4. out' \in Seq(Nat \X Nat) /\ OutputInOrder'
  <2>1. Len(out') = 1 /\ out'[1][1] = 0 /\ out'[1][2] = b.count
    BY <1>2
  <2>2. out' \in Seq(Nat \X Nat)
    BY <1>1, <1>2
  <2>3. QED
    BY <1>1, <2>1, <2>2 DEF OutputInOrder
<1>5. TypeOK'
  BY <1>1, <1>2, <1>4 DEF IInv, TypeOK
<1>6. IdleInv' /\ ParseInv' /\ ListInv' /\ WriteInv' /\ StripsOrdered' /\ NoStripOverflow'
  BY <1>2 DEF IInv, IdleInv, ParseInv, ListInv, WriteInv, StripsOrdered, NoStripOverflow
<1>7. CallInv' /\ NameInv' /\ PassInv'
  <2>1. f # NoFd /\ f # hprof_fd_
    BY FdsAssumption DEF PassThrough, NoFd
  <2>2. QED
    BY <1>2, <2>1 DEF IInv, CallInv, NameInv, PassInv, IsHprof
<1>8. QED
  BY <1>2, <1>4, <1>5, <1>6, <1>7 DEF IInv

LEMMA PatchLengthStep ==
  ASSUME IInv, PatchLength
  PROVE  IInv'
<1>1. /\ phase = "parse" /\ phase' = "scan"
      /\ record_length' = record_length - strip_bytes_sum_
      /\ UNCHANGED <<hprof_name_, hprof_fd_, path_of, stale, is_current_system_heap_,
                     hook_write_serial_num_, fd, buf, first_index, strip_list,
                     strip_bytes_sum_, i, start_index, left, out, disk, stream_heap>>
  BY DEF PatchLength
<1>2. TypeOK'
  BY <1>1 DEF IInv, TypeOK
<1>3. i = 0 /\ start_index = 0 /\ out = <<>> /\ strip_list \in Seq(Nat \X Nat)
  BY <1>1 DEF IInv, ListInv, TypeOK
<1>4. IdleInv' /\ ParseInv' /\ ListInv' /\ WriteInv'
  BY <1>1, <1>3 DEF IdleInv, ParseInv, ListInv, WriteInv
<1>5. StripsOrdered' /\ NoStripOverflow' /\ OutputInOrder'
  BY <1>1 DEF IInv, StripsOrdered, NoStripOverflow, OutputInOrder
<1>6. CallInv' /\ NameInv' /\ PassInv'
  BY <1>1 DEF IInv, CallInv, NameInv, PassInv, IsHprof
<1>7. QED
  BY <1>1, <1>2, <1>4, <1>5, <1>6 DEF IInv

\* The piece that starts at start_index ends at or after it.
LEMMA PieceNonNegative ==
  ASSUME IInv, phase \in {"scan", "write"}
  PROVE  /\ PieceEnd \in Nat /\ NextStart \in Nat
         /\ start_index <= PieceEnd /\ PieceEnd <= NextStart
         /\ i \in 0 .. Len(strip_list)
<1>1. /\ i \in Nat /\ i <= Len(strip_list) /\ Len(strip_list) \in Nat
      /\ start_index = (IF i = 0 THEN 0 ELSE strip_list[i][2])
      /\ buf.count \in Nat /\ start_index \in Nat
      /\ \A k \in 1 .. Len(strip_list) : strip_list[k] \in Nat \X Nat
  BY DEF IInv, TypeOK, WriteInv, IsBuffer
<1>0. Ordered(strip_list, buf.count)
  BY DEF IInv, StripsOrdered
<1>2. CASE i < Len(strip_list)
  <2>1. i + 1 \in 1 .. Len(strip_list)
    BY <1>1, <1>2
  <2>2. /\ PieceEnd = strip_list[i + 1][1] /\ NextStart = strip_list[i + 1][2]
        /\ PieceEnd \in Nat /\ NextStart \in Nat /\ PieceEnd <= NextStart
    BY <1>0, <1>1, <1>2, <2>1 DEF PieceEnd, NextStart, Ordered
  <2>3. CASE i = 0
    BY <1>1, <2>2, <2>3
  <2>4. CASE i # 0
    <3>1. i \in 1 .. Len(strip_list) - 1
      BY <1>1, <1>2, <2>4
    <3>2. strip_list[i][2] <= strip_list[i + 1][1]
      BY <1>0, <3>1 DEF Ordered, Ordered
    <3>3. QED
      BY <1>1, <2>2, <2>4, <3>2
  <2>5. QED
    BY <2>3, <2>4
<1>3. CASE i = Len(strip_list)
  <2>1. PieceEnd = buf.count /\ NextStart = buf.count
    BY <1>3, <1>1 DEF PieceEnd, NextStart
  <2>2. i # 0 => strip_list[i][2] <= buf.count
    BY <1>0, <1>1, <1>3 DEF Ordered, Ordered
  <2>3. QED
    BY <1>1, <2>1, <2>2
<1>4. QED
  BY <1>1, <1>2, <1>3

\* What the steps of the write loop leave alone, in one place.
LEMMA WriteKeepsInv ==
  ASSUME IInv, phase \in {"scan", "write"}, phase' \in {"scan", "write", "return"},
         UNCHANGED WriteKeeps, i' \in Nat, start_index' \in Nat, left' \in Nat,
         out' \in Seq(Nat \X Nat)
  PROVE  /\ TypeOK' /\ CallInv' /\ NameInv' /\ PassInv' /\ (buf \in Buffers \cup {NoBuffer})'
         /\ IdleInv' /\ ParseInv' /\ ListInv' /\ StripsOrdered' /\ NoStripOverflow'
<1>1. UNCHANGED <<hprof_name_, hprof_fd_, path_of, stale, is_current_system_heap_,
                  hook_write_serial_num_, fd, buf, first_index, strip_list,
                  strip_bytes_sum_, record_length, disk, stream_heap>>
  BY DEF WriteKeeps
<1>2. TypeOK'
  BY <1>1 DEF IInv, TypeOK
<1>3. StripsOrdered' /\ NoStripOverflow'
  BY <1>1 DEF IInv, StripsOrdered, NoStripOverflow
<1>4. IdleInv' /\ ParseInv' /\ ListInv'
  BY <1>1 DEF IdleInv, ParseInv, ListInv
<1>5. CallInv' /\ NameInv' /\ PassInv'
  BY <1>1 DEF IInv, CallInv, NameInv, PassInv, IsHprof
<1>6. QED
  BY <1>1, <1>2, <1>3, <1>4, <1>5 DEF IInv

\* Going round the loop with everything up to the end of the piece written.
LEMMA NextPieceStep ==
  ASSUME IInv, phase \in {"scan", "write"}, NextPiece, UNCHANGED WriteKeeps,
         left' \in Nat, out' \in Seq(Nat \X Nat), OutputInOrder',
         out' # <<>> => out'[Len(out')][2] <= PieceEnd
  PROVE  IInv'
<1>1. /\ PieceEnd \in Nat /\ NextStart \in Nat /\ PieceEnd <= NextStart
      /\ i \in 0 .. Len(strip_list) /\ Len(strip_list) \in Nat
  BY PieceNonNegative DEF IInv, TypeOK
<1>2. /\ start_index' = NextStart /\ i' = i + 1 /\ strip_list' = strip_list
      /\ phase' = (IF i < Len(strip_list) THEN "scan" ELSE "return")
  BY DEF NextPiece, WriteKeeps
<1>3. /\ TypeOK' /\ CallInv' /\ NameInv' /\ PassInv' /\ (buf \in Buffers \cup {NoBuffer})'
      /\ IdleInv' /\ ParseInv' /\ ListInv' /\ StripsOrdered' /\ NoStripOverflow'
  BY <1>1, <1>2, WriteKeepsInv
<1>4. WriteInv'
  <2> SUFFICES ASSUME phase' \in {"scan", "write"} PROVE WriteInv'
    BY DEF WriteInv
  <2>1. phase' = "scan" /\ i < Len(strip_list)
    BY <1>2
  <2>2. NextStart = strip_list[i + 1][2]
    BY <2>1 DEF NextStart
  <2>3. Done' = NextStart
    BY <1>2, <2>1 DEF Done
  <2>4. out' # <<>> => out'[Len(out')] \in Nat \X Nat
    OBVIOUS
  <2>5. out' # <<>> => out'[Len(out')][2] <= Done'
    BY <1>1, <2>3, <2>4
  <2>6. QED
    BY <1>1, <1>2, <2>1, <2>2, <2>5 DEF WriteInv
<1>5. QED
  BY <1>3, <1>4 DEF IInv

LEMMA EmptyPieceStep ==
  ASSUME IInv, EmptyPiece
  PROVE  IInv'
<1>1. /\ phase = "scan" /\ PieceEnd = start_index /\ NextPiece /\ UNCHANGED WriteKeeps
      /\ out' = out /\ left' = left
  BY PieceNonNegative DEF EmptyPiece, IInv, TypeOK
<1>2. out # <<>> => out[Len(out)][2] <= PieceEnd
  BY <1>1 DEF IInv, WriteInv, Done
<1>3. out' \in Seq(Nat \X Nat) /\ left' \in Nat
  BY <1>1 DEF IInv, TypeOK
<1>4. OutputInOrder'
  BY <1>1 DEF IInv, OutputInOrder
<1>5. QED
  BY <1>1, <1>2, <1>3, <1>4, NextPieceStep

LEMMA StartPieceStep ==
  ASSUME IInv, StartPiece
  PROVE  IInv'
<1>1. /\ phase = "scan" /\ phase' = "write" /\ left' = PieceEnd - start_index
      /\ PieceEnd - start_index # 0 /\ UNCHANGED <<i, start_index, out>> /\ UNCHANGED WriteKeeps
  BY DEF StartPiece
<1>2. PieceEnd \in Nat /\ start_index \in Nat /\ start_index <= PieceEnd
  BY <1>1, PieceNonNegative DEF IInv, TypeOK
<1>3. left' \in Nat \ {0}
  BY <1>1, <1>2
<1>4. i' \in Nat /\ start_index' \in Nat /\ out' \in Seq(Nat \X Nat)
  BY <1>1 DEF IInv, TypeOK
<1>5. /\ TypeOK' /\ CallInv' /\ NameInv' /\ PassInv' /\ (buf \in Buffers \cup {NoBuffer})'
      /\ IdleInv' /\ ParseInv' /\ ListInv' /\ StripsOrdered' /\ NoStripOverflow'
  BY <1>1, <1>3, <1>4, WriteKeepsInv
<1>6. PieceEnd' = PieceEnd /\ strip_list' = strip_list
  BY <1>1 DEF PieceEnd, WriteKeeps
<1>7. Done' = start_index /\ Done = start_index
  BY <1>1, <1>2, <1>6 DEF Done
<1>8. WriteInv'
  <2>1. /\ i <= Len(strip_list) /\ start_index = (IF i = 0 THEN 0 ELSE strip_list[i][2])
        /\ out # <<>> => out[Len(out)][2] <= Done
    BY <1>1 DEF IInv, WriteInv
  <2>2. left' \in 1 .. (PieceEnd - start_index)'
    BY <1>1, <1>2, <1>3, <1>6
  <2>3. QED
    BY <1>1, <1>6, <1>7, <2>1, <2>2 DEF WriteInv
<1>9. OutputInOrder'
  BY <1>1 DEF IInv, OutputInOrder
<1>10. QED
  BY <1>5, <1>8, <1>9 DEF IInv

LEMMA FullyWriteStep ==
  ASSUME IInv, FullyWrite
  PROVE  IInv'
<1>1. PICK written \in {left} \cup {w \in ShortWrites : w < left} :
        /\ out' = Append(out, <<PieceEnd - left, PieceEnd - left + written>>)
        /\ left' = left - written
        /\ IF written = left THEN NextPiece ELSE UNCHANGED <<phase, i, start_index>>
  BY DEF FullyWrite, Position
<1>2. /\ phase = "write" /\ UNCHANGED WriteKeeps /\ out \in Seq(Nat \X Nat)
      /\ left \in Nat /\ start_index \in Nat /\ PieceEnd \in Nat
      /\ left \in 1 .. (PieceEnd - start_index)
      /\ out # <<>> => out[Len(out)][2] <= PieceEnd - left
      /\ OutputInOrder
  BY PieceNonNegative DEF FullyWrite, IInv, TypeOK, WriteInv, Done
<1>3. written \in Nat \ {0} /\ written <= left
  BY <1>2, WritesAssumption
<1> DEFINE from == PieceEnd - left
           to == PieceEnd - left + written
           n == Len(out)
<1>4. from \in Nat /\ to \in Nat /\ from <= to /\ to <= PieceEnd /\ to = PieceEnd - left'
      /\ left' \in Nat
  <2>1. left' = left - written
    BY <1>1
  <2>2. left <= PieceEnd
    BY <1>2
  <2>3. QED
    BY <1>2, <1>3, <2>1, <2>2
<1>5. out' = Append(out, <<from, to>>)
  BY <1>1
<1> HIDE DEF from, to
<1>6. /\ out' \in Seq(Nat \X Nat) /\ n \in Nat /\ Len(out') = n + 1
      /\ \A k \in 1 .. n : out'[k] = out[k] /\ out[k] \in Nat \X Nat
      /\ out'[n + 1] = <<from, to>>
  BY <1>2, <1>4, <1>5, SMTT(30)
<1>7. out'[n + 1][1] = from /\ out'[n + 1][2] = to
  BY <1>6
<1>8. n # 0 => out[n][2] <= from
  BY <1>2 DEF from
<1> HIDE DEF n
<1>9. OutputInOrder'
  <2>1. \A k \in 1 .. n + 1 : out'[k][1] <= out'[k][2]
    <3> SUFFICES ASSUME NEW k \in 1 .. n + 1 PROVE out'[k][1] <= out'[k][2]
      OBVIOUS
    <3>1. CASE k = n + 1
      BY <3>1, <1>4, <1>7
    <3>2. CASE k \in 1 .. n
      BY <3>2, <1>2, <1>6 DEF OutputInOrder, n
    <3>3. QED
      BY <3>1, <3>2, <1>6
  <2>2. \A k \in 1 .. n : out'[k][2] <= out'[k + 1][1]
    <3> SUFFICES ASSUME NEW k \in 1 .. n PROVE out'[k][2] <= out'[k + 1][1]
      OBVIOUS
    <3>1. CASE k = n
      BY <3>1, <1>6, <1>7, <1>8
    <3>2. CASE k \in 1 .. n - 1
      <4>1. k \in 1 .. n /\ k + 1 \in 1 .. n
        BY <3>2, <1>6
      <4>2. out[k][2] <= out[k + 1][1]
        BY <3>2, <1>2 DEF OutputInOrder, n
      <4>3. QED
        BY <4>1, <4>2, <1>6
    <3>3. QED
      BY <3>1, <3>2, <1>6
  <2>3. QED
    BY <1>6, <2>1, <2>2 DEF OutputInOrder
<1>10. out'[Len(out')][2] = to
  BY <1>6, <1>7
<1>11. CASE written = left
  BY <1>1, <1>2, <1>4, <1>6, <1>9, <1>10, <1>11, NextPieceStep
<1>12. CASE written # left
  <2>1. UNCHANGED <<phase, i, start_index>> /\ left' = left - written
    BY <1>1, <1>12
  <2>2. i' \in Nat /\ start_index' \in Nat
    BY <2>1 DEF IInv, TypeOK
  <2>3. /\ TypeOK' /\ CallInv' /\ NameInv' /\ PassInv' /\ (buf \in Buffers \cup {NoBuffer})'
        /\ IdleInv' /\ ParseInv' /\ ListInv' /\ StripsOrdered' /\ NoStripOverflow'
    BY <1>2, <1>4, <1>6, <2>1, <2>2, WriteKeepsInv
  <2>4. PieceEnd' = PieceEnd /\ strip_list' = strip_list
    BY <1>2, <2>1 DEF PieceEnd, WriteKeeps
  <2>5. Done' = to
    BY <1>2, <1>4, <2>1, <2>4 DEF Done
  <2>6. left' \in 1 .. (PieceEnd - start_index)'
    BY <1>2, <1>3, <1>12, <2>1, <2>4
  <2>7. i <= Len(strip_list) /\ start_index = (IF i = 0 THEN 0 ELSE strip_list[i][2])
    BY <1>2 DEF IInv, WriteInv
  <2>8. WriteInv'
    BY <1>4, <1>10, <2>1, <2>4, <2>5, <2>6, <2>7 DEF WriteInv
  <2>9. QED
    BY <1>9, <2>3, <2>8 DEF IInv
<1>13. QED
  BY <1>11, <1>12

LEMMA ReturnStep ==
  ASSUME IInv, Return
  PROVE  IInv'
<1>1. /\ phase = "return" /\ phase' = "idle" /\ fd' = NoFd /\ buf' = NoBuffer
      /\ first_index' = 0 /\ record_length' = 0 /\ i' = 0 /\ start_index' = 0 /\ left' = 0 /\ out' = <<>>
      /\ UNCHANGED <<hprof_name_, hprof_fd_, path_of, stale, is_current_system_heap_, strip_list,
                     strip_bytes_sum_, disk>>
  BY DEF Return, Counted
<1>2. hook_write_serial_num_' \in 0 .. MaxWrites
  <2>1. hook_write_serial_num_ \in 0 .. MaxWrites /\ MaxWrites \in Nat
    BY BoundsAssumption DEF IInv, TypeOK
  <2>2. fd = hprof_fd_ => hook_write_serial_num_ < MaxWrites
    BY <1>1 DEF IInv, CallInv
  <2>3. QED
    BY <2>1, <2>2 DEF Return, Counted
<1>3. stream_heap' \in BOOLEAN
  BY Zenon DEF Return, SystemHeapAt, IInv, TypeOK
<1>4. TypeOK'
  BY <1>1, <1>2, <1>3, NoBufferType DEF IInv, TypeOK
<1>5. CallInv' /\ NameInv' /\ PassInv'
  BY <1>1 DEF IInv, CallInv, NameInv, PassInv, IsHprof
<1>6. QED
  BY <1>1, <1>4, <1>5
  DEF IInv, IdleInv, ParseInv, ListInv, WriteInv, StripsOrdered, NoStripOverflow, OutputInOrder

\* What naming the file, opening, closing and the failing of the disk leave alone.
LEMMA NamingKeepsInv ==
  ASSUME IInv,
         UNCHANGED <<is_current_system_heap_, hook_write_serial_num_, phase, fd, buf,
                     first_index, strip_list, strip_bytes_sum_, record_length, i, start_index,
                     left, out, stream_heap>>,
         hprof_name_' \in Names \cup {NoName}, hprof_fd_' \in Fds \cup {NoFd},
         path_of' \in [Fds -> Paths \cup {NoPath}], stale' \in BOOLEAN,
         disk' \in {"ok", "failed"},
         phase = "idle" \/ hprof_fd_' = hprof_fd_,
         NameInv'
  PROVE  IInv'
<1>1. TypeOK'
  BY DEF IInv, TypeOK
<1>2. /\ IdleInv' /\ ParseInv' /\ ListInv' /\ WriteInv' /\ StripsOrdered'
      /\ NoStripOverflow' /\ OutputInOrder'
  BY DEF IInv, IdleInv, ParseInv, ListInv, WriteInv, Done, PieceEnd, StripsOrdered,
         NoStripOverflow, OutputInOrder
<1>3. CallInv' /\ PassInv'
  BY DEF IInv, CallInv, PassInv
<1> QED
  BY <1>1, <1>2, <1>3 DEF IInv

LEMMA SetHprofNameStep ==
  ASSUME IInv, NEW name \in Names, SetHprofName(name)
  PROVE  IInv'
<1>1. NameInv'
  BY DEF SetHprofName, NameInv
<1> QED
  BY <1>1, NamingKeepsInv DEF SetHprofName, IInv, TypeOK

\* What opening and closing leave alone, and the types of what they change.
LEMMA OpenKeepsInv ==
  ASSUME IInv, phase = "idle", UNCHANGED OpenKeeps, NameInv', stale' \in BOOLEAN,
         hprof_fd_' \in Fds \cup {NoFd}, path_of' \in [Fds -> Paths \cup {NoPath}]
  PROVE  IInv'
BY NamingKeepsInv DEF OpenKeeps, IInv, TypeOK

LEMMA HookOpenStep ==
  ASSUME IInv, NEW path \in Paths, NEW f \in Fds, HookOpenInternal(path, f)
  PROVE  IInv'
<1>1. /\ phase = "idle" /\ path_of[f] = NoPath /\ path_of' = [path_of EXCEPT ![f] = path]
      /\ hprof_fd_' = (IF IsHprof(path) THEN f ELSE hprof_fd_)
      /\ stale' = (stale /\ ~IsHprof(path))
      /\ UNCHANGED OpenKeeps /\ hprof_name_' = hprof_name_
  BY DEF HookOpenInternal, Remember, OpenKeeps
<1>2. /\ path_of \in [Fds -> Paths \cup {NoPath}] /\ hprof_fd_ \in Fds \cup {NoFd}
      /\ stale \in BOOLEAN /\ NoFd \notin Fds
  BY FdsAssumption DEF IInv, TypeOK, NoFd
<1>3. NameInv'
  <2>1. CASE IsHprof(path)
    BY <1>1, <1>2, <2>1 DEF NameInv, IsHprof
  <2>2. CASE ~IsHprof(path)
    <3> SUFFICES ASSUME hprof_fd_ # NoFd, ~stale
                 PROVE  IsHprof(path_of[hprof_fd_])'
      BY <1>1, <2>2 DEF NameInv
    <3>1. IsHprof(path_of[hprof_fd_]) /\ hprof_fd_ \in Fds
      BY <1>2 DEF IInv, NameInv
    <3>2. path_of[hprof_fd_] # NoPath
      BY <3>1, PathsAssumption DEF IsHprof
    <3>3. path_of'[hprof_fd_] = path_of[hprof_fd_]
      BY <1>1, <1>2, <3>1, <3>2
    <3> QED
      BY <1>1, <2>2, <3>1, <3>3 DEF IsHprof
  <2> QED
    BY <2>1, <2>2
<1> QED
  BY <1>1, <1>2, <1>3, OpenKeepsInv

LEMMA HookOpenFailsStep ==
  ASSUME IInv, NEW path \in Paths, HookOpenFails(path)
  PROVE  IInv'
<1>1. /\ phase = "idle" /\ path_of' = path_of
      /\ hprof_fd_' = (IF IsHprof(path) THEN NoFd ELSE hprof_fd_)
      /\ stale' = (stale /\ ~IsHprof(path))
      /\ UNCHANGED OpenKeeps /\ hprof_name_' = hprof_name_
  BY DEF HookOpenFails, Remember, OpenKeeps
<1>2. /\ path_of \in [Fds -> Paths \cup {NoPath}] /\ hprof_fd_ \in Fds \cup {NoFd}
      /\ stale \in BOOLEAN
  BY DEF IInv, TypeOK
<1>3. NameInv'
  BY <1>1 DEF IInv, NameInv, IsHprof
<1> QED
  BY <1>1, <1>2, <1>3, OpenKeepsInv

LEMMA CloseStep ==
  ASSUME IInv, NEW f \in Fds, Close(f)
  PROVE  IInv'
<1>1. /\ phase = "idle" /\ path_of' = [path_of EXCEPT ![f] = NoPath]
      /\ hprof_fd_' = hprof_fd_ /\ stale' = (stale \/ f = hprof_fd_)
      /\ UNCHANGED OpenKeeps /\ hprof_name_' = hprof_name_
  BY DEF Close, OpenKeeps
<1>2. /\ path_of \in [Fds -> Paths \cup {NoPath}] /\ hprof_fd_ \in Fds \cup {NoFd}
      /\ stale \in BOOLEAN
  BY DEF IInv, TypeOK
<1>3. NameInv'
  <2> SUFFICES ASSUME hprof_fd_ # NoFd, ~stale, f # hprof_fd_
               PROVE  IsHprof(path_of[hprof_fd_])'
    BY <1>1 DEF NameInv
  <2>1. IsHprof(path_of[hprof_fd_]) /\ hprof_fd_ \in Fds
    BY <1>2 DEF IInv, NameInv
  <2>2. path_of'[hprof_fd_] = path_of[hprof_fd_]
    BY <1>1, <1>2, <2>1
  <2> QED
    BY <1>1, <2>1, <2>2 DEF IsHprof
<1> QED
  BY <1>1, <1>2, <1>3, OpenKeepsInv

LEMMA DiskFailsStep ==
  ASSUME IInv, DiskFails
  PROVE  IInv'
<1>1. NameInv'
  BY DEF DiskFails, IInv, NameInv, IsHprof
<1> QED
  BY <1>1, NamingKeepsInv DEF DiskFails, IInv, TypeOK

LEMMA StutterStep ==
  ASSUME IInv, UNCHANGED vars
  PROVE  IInv'
<1>1. UNCHANGED <<hprof_name_, hprof_fd_, path_of, stale, is_current_system_heap_,
                  hook_write_serial_num_, phase, fd, buf, first_index, strip_list,
                  strip_bytes_sum_, record_length, i, start_index, left, out, disk, stream_heap>>
  BY DEF vars
<1>2. TypeOK'
  BY <1>1 DEF IInv, TypeOK
<1>3. QED
  BY <1>1, <1>2
  DEF IInv, CallInv, NameInv, PassInv, IsHprof, IdleInv, ParseInv, ListInv, WriteInv, Done, PieceEnd,
      StripsOrdered, NoStripOverflow, OutputInOrder

-----------------------------------------------------------------------------
(* The theorems.                                                           *)

\* Every state of HprofStrip satisfies the inductive invariant: the parser's
\* position, the strip list and the write loop fit together in every reachable
\* state of the hooks, whatever the runtime writes and however write() splits it.
THEOREM Invariant == Spec => []IInv
<1>1. ASSUME IInv, [Next]_vars PROVE IInv'
  <2>1. CASE \E name \in Names : SetHprofName(name)
    BY <1>1, <2>1, SetHprofNameStep
  <2>2. CASE \E path \in Paths, f \in Fds : HookOpenInternal(path, f)
    BY <1>1, <2>2, HookOpenStep
  <2>14. CASE \E path \in Paths : HookOpenFails(path)
    BY <1>1, <2>14, HookOpenFailsStep
  <2>15. CASE \E f \in Fds : Close(f)
    BY <1>1, <2>15, CloseStep
  <2>3. CASE \E f \in Fds, b \in Buffers : PassThrough(f, b)
    BY <1>1, <2>3, PassThroughStep
  <2>4. CASE \E f \in Fds, b \in Buffers : HookWriteInternal(f, b)
    BY <1>1, <2>4, HookWriteStep
  <2>5. CASE ProcessHeap
    BY <1>1, <2>5, CasesOfProcessHeap, ParseStep
  <2>6. CASE PatchLength
    BY <1>1, <2>6, PatchLengthStep
  <2>7. CASE EmptyPiece
    BY <1>1, <2>7, EmptyPieceStep
  <2>8. CASE StartPiece
    BY <1>1, <2>8, StartPieceStep
  <2>9. CASE FullyWrite
    BY <1>1, <2>9, FullyWriteStep
  <2>10. CASE Return
    BY <1>1, <2>10, ReturnStep
  <2>11. CASE DiskFails
    BY <1>1, <2>11, DiskFailsStep
  <2>12. CASE FullyWriteFails \/ DumpOver \/ UNCHANGED vars
    BY <1>1, <2>12, StutterStep DEF FullyWriteFails, DumpOver
  <2>13. QED
    BY <1>1, <2>1, <2>2, <2>3, <2>4, <2>5, <2>6, <2>7, <2>8, <2>9, <2>10, <2>11, <2>12,
       <2>14, <2>15
    DEF Next, WriterStep, WriteLoop
<1>2. QED
  BY InitInv, <1>1, PTL DEF Spec

\* The hooks' variables keep their types.
THEOREM TypeCorrect == Spec => []TypeOK
<1>1. IInv => TypeOK
  BY DEF IInv
<1>2. QED
  BY <1>1, Invariant, PTL

\* ProcessHeap reads a tag byte only where the runtime put one.
THEOREM InSync == Spec => []ParserInSync
<1>1. IInv => ParserInSync
  BY DEF IInv, ParseInv, ParserInSync
<1>2. QED
  BY <1>1, Invariant, PTL

\* Strips never overlap or go backwards, so that no piece of the write loop has
\* a negative length (HookWriteInternal's check for one is dead code).
THEOREM StripsStayOrdered == Spec => []StripsOrdered
<1>1. IInv => StripsOrdered
  BY DEF IInv
<1>2. QED
  BY <1>1, Invariant, PTL

\* ProcessHeap's unchecked stores stay inside strip_index_list_pair_.
THEOREM StripListBounded == Spec => []NoStripOverflow
<1>1. IInv => NoStripOverflow
  BY DEF IInv
<1>2. QED
  BY <1>1, Invariant, PTL

\* No byte of a buffer reaches the file twice or out of order.
THEOREM WritesInOrder == Spec => []OutputInOrder
<1>1. IInv => OutputInOrder
  BY DEF IInv
<1>2. QED
  BY <1>1, Invariant, PTL

-----------------------------------------------------------------------------
(* What is stripped and what is kept.  The ranges of a list are a set of   *)
(* offsets; what the strips have to be is told from the buffer and the     *)
(* heap of the stream alone, up to the sub-record the parser has got to.   *)

Ranges(list) == UNION {list[k][1] .. (list[k][2] - 1) : k \in 1 .. Len(list)}

Before(b, o) == {p \in Starts(b) : p < o}

StrippedBefore(b, heap, o) == UNION {StripOf(b, heap, p) : p \in Before(b, o)}

\* Application arrays: their values are stripped, but still counted.
IsFilledIn(b, heap, p) == b.sub[p].kind = "primitive_array" /\ ~SystemHeapAt(b, heap, p)

FilledInBefore(b, heap, o) ==
    UNION {StripOf(b, heap, p) : p \in {q \in Before(b, o) : IsFilledIn(b, heap, q)}}

Writing == phase \in {"scan", "write"} \/ HookReturns

\* The parser's heap flag is the heap of the stream, as of the last info it has met.
HeapAfterBuffer ==
    IF buf.tag = "heap_dump" THEN SystemHeapAt(buf, stream_heap, buf.count) ELSE stream_heap

HeapInv ==
    /\ phase = "idle" \/ (phase = "return" /\ fd # hprof_fd_)
         => is_current_system_heap_ = stream_heap
    /\ phase = "parse" =>
         /\ is_current_system_heap_ = SystemHeapAt(buf, stream_heap, first_index - 1)
         /\ Reached(buf, first_index - 1)
    /\ Writing => is_current_system_heap_ = HeapAfterBuffer

\* The strips are those of the sub-records behind the parser.
StripInv ==
    /\ phase = "parse" => Ranges(strip_list) = StrippedBefore(buf, stream_heap, first_index)
    /\ Writing => Ranges(strip_list) = Stripped(buf, stream_heap)

\* Any two strips are apart, not only neighbours.
Apart(list) == \A j, k \in 1 .. Len(list) : j < k => list[j][2] <= list[k][1]

ApartInv == phase \in {"parse", "scan", "write"} => Apart(strip_list)

\* Everything up to Done has been written, but for the strips.
WrittenInv ==
    /\ phase \in {"scan", "write"} => Written = (0 .. Done - 1) \ Ranges(strip_list)
    /\ HookReturns => Written = (0 .. buf.count - 1) \ Ranges(strip_list)

\* The sum counts the strips that nobody fills in again.
LengthInv ==
    buf.tag = "heap_dump" =>
      /\ phase = "parse" =>
           /\ record_length = buf.count - RecordHeader
           /\ Cardinality(StrippedBefore(buf, stream_heap, first_index))
                = strip_bytes_sum_ + Cardinality(FilledInBefore(buf, stream_heap, first_index))
      /\ Writing =>
           /\ record_length = buf.count - RecordHeader - strip_bytes_sum_
           /\ Cardinality(Stripped(buf, stream_heap))
                = strip_bytes_sum_ + Cardinality(ToFillIn(buf, stream_heap))

KeptInv == HeapInv /\ StripInv /\ ApartInv /\ WrittenInv /\ LengthInv

\* A buffer as the parser finds it: its sub-records start at natural numbers.
LEMMA BufferShape ==
  ASSUME NEW b, IsBuffer(b), b.tag = "heap_dump"
  PROVE  /\ b.count \in Nat /\ RecordHeader = 9
         /\ Starts(b) \subseteq Nat
         /\ RecordHeader \in Starts(b) \cup {b.count}
         /\ \A p \in Starts(b) :
              /\ RecordHeader <= p /\ p < b.count
              /\ b.sub[p] \in SubRecord /\ ArtSize(b.sub[p]) \in Nat \ {0}
              /\ p + ArtSize(b.sub[p]) \in Starts(b) \cup {b.count}
              /\ p + ArtSize(b.sub[p]) <= b.count
              /\ \A q \in Starts(b) : p < q => p + ArtSize(b.sub[p]) <= q
<1>1. RecordHeader = 9
  BY DEF RecordHeader, HEAP_TAG_BYTE_SIZE, RECORD_TIME_BYTE_SIZE, RECORD_LENGTH_BYTE_SIZE
<1>2. /\ b.count \in Nat /\ Starts(b) \subseteq RecordHeader .. (b.count - 1)
      /\ b.sub \in [Starts(b) -> SubRecord] /\ RecordHeader \in Starts(b) \cup {b.count}
      /\ \A p \in Starts(b) :
           /\ p + ArtSize(b.sub[p]) \in Starts(b) \cup {b.count}
           /\ \A q \in Starts(b) : p < q => p + ArtSize(b.sub[p]) <= q
  BY DEF IsBuffer
<1>3. ASSUME NEW p \in Starts(b)
      PROVE  /\ RecordHeader <= p /\ p < b.count /\ p \in Nat
             /\ b.sub[p] \in SubRecord /\ ArtSize(b.sub[p]) \in Nat \ {0}
             /\ p + ArtSize(b.sub[p]) <= b.count
  <2>1. b.sub[p] \in SubRecord
    BY <1>2
  <2>2. ArtSize(b.sub[p]) \in Nat \ {0}
    BY <2>1, ArtSizePositive
  <2>3. p \in RecordHeader .. (b.count - 1)
    BY <1>2
  <2>4. p + ArtSize(b.sub[p]) \in RecordHeader .. b.count
    BY <1>1, <1>2
  <2> QED
    BY <1>1, <1>2, <2>1, <2>2, <2>3, <2>4
<1> QED
  BY <1>1, <1>2, <1>3

\* The heap infos that count at o, as SystemHeapAt sees them.
Infos(b, o) == {p \in InfosUpTo(b, o) : Reached(b, p)}

LEMMA SameInfosSameHeap ==
  ASSUME NEW b, NEW heap, NEW o1, NEW o2, Infos(b, o1) = Infos(b, o2)
  PROVE  SystemHeapAt(b, heap, o1) = SystemHeapAt(b, heap, o2)
BY DEF SystemHeapAt, Infos

\* The heap changes at a heap info and nowhere else.
LEMMA HeapChangesAtInfo ==
  ASSUME NEW b, IsBuffer(b), b.tag = "heap_dump", NEW heap \in BOOLEAN,
         NEW o \in Starts(b), Reached(b, o)
  PROVE  SystemHeapAt(b, heap, o) =
           IF b.sub[o].kind = "heap_info" THEN b.sub[o].sys ELSE SystemHeapAt(b, heap, o - 1)
<1>1. Starts(b) \subseteq Nat
  BY BufferShape
<1>2. CASE b.sub[o].kind = "heap_info"
  <2>1. o \in Infos(b, o) /\ \A q \in Infos(b, o) : q \in Nat /\ q <= o
    BY <1>1, <1>2 DEF Infos, InfosUpTo
  <2>2. b.sub[o].sys \in BOOLEAN
    BY BufferShape DEF SubRecord
  <2>3. (\E p \in Infos(b, o) : (\A q \in Infos(b, o) : q <= p) /\ b.sub[p].sys) <=> b.sub[o].sys
    <3>1. ASSUME NEW p \in Infos(b, o), \A q \in Infos(b, o) : q <= p PROVE p = o
      BY <2>1, <3>1
    <3> QED
      BY <2>1, <3>1
  <2>4. SystemHeapAt(b, heap, o)
          = \E p \in Infos(b, o) : (\A q \in Infos(b, o) : q <= p) /\ b.sub[p].sys
    BY <2>1 DEF SystemHeapAt, Infos
  <2> QED
    BY <1>2, <2>2, <2>3, <2>4, Zenon
<1>3. CASE b.sub[o].kind # "heap_info"
  <2>1. Infos(b, o) = Infos(b, o - 1)
    BY <1>1, <1>3 DEF Infos, InfosUpTo
  <2> QED
    BY <1>3, <2>1, SameInfosSameHeap
<1> QED
  BY <1>2, <1>3

\* Going on from one sub-record to the next leaves one more behind.
LEMMA OneMoreBehind ==
  ASSUME NEW b, IsBuffer(b), b.tag = "heap_dump", NEW heap \in BOOLEAN,
         NEW o \in Starts(b), Reached(b, o),
         NEW end, end = o + ArtSize(b.sub[o])
  PROVE  /\ Before(b, end) = Before(b, o) \cup {o}
         /\ Reached(b, end - 1)
         /\ SystemHeapAt(b, heap, end - 1) = SystemHeapAt(b, heap, o)
         /\ StrippedBefore(b, heap, end) = StrippedBefore(b, heap, o) \cup StripOf(b, heap, o)
         /\ IsFilledIn(b, heap, o) =>
              FilledInBefore(b, heap, end) = FilledInBefore(b, heap, o) \cup StripOf(b, heap, o)
         /\ ~IsFilledIn(b, heap, o) =>
              FilledInBefore(b, heap, end) = FilledInBefore(b, heap, o)
<1>1. /\ Starts(b) \subseteq Nat /\ end \in Nat /\ o < end
      /\ \A p \in Starts(b) : o < p => end <= p
  BY BufferShape
<1>2. Before(b, end) = Before(b, o) \cup {o}
  BY <1>1 DEF Before
<1>3. \A p \in Starts(b) : p <= end - 1 <=> p <= o
  BY <1>1
<1>4. Reached(b, end - 1)
  BY <1>3 DEF Reached
<1>5. Infos(b, end - 1) = Infos(b, o)
  BY <1>3 DEF Infos, InfosUpTo
<1>6. StrippedBefore(b, heap, end) = StrippedBefore(b, heap, o) \cup StripOf(b, heap, o)
  BY <1>2 DEF StrippedBefore
<1>7. CASE IsFilledIn(b, heap, o)
  <2>1. {q \in Before(b, end) : IsFilledIn(b, heap, q)}
          = {q \in Before(b, o) : IsFilledIn(b, heap, q)} \cup {o}
    BY <1>2, <1>7
  <2> QED
    BY <1>2, <1>4, <1>5, <1>6, <1>7, <2>1, SameInfosSameHeap DEF FilledInBefore
<1>8. CASE ~IsFilledIn(b, heap, o)
  <2>1. {q \in Before(b, end) : IsFilledIn(b, heap, q)}
          = {q \in Before(b, o) : IsFilledIn(b, heap, q)}
    BY <1>2, <1>8
  <2> QED
    BY <1>2, <1>4, <1>5, <1>6, <1>8, <2>1, SameInfosSameHeap DEF FilledInBefore
<1> QED
  BY <1>7, <1>8

\* Nothing is behind the parser where it starts.
LEMMA NothingBehind ==
  ASSUME NEW b, IsBuffer(b), b.tag = "heap_dump", NEW heap \in BOOLEAN
  PROVE  /\ SystemHeapAt(b, heap, RecordHeader - 1) = heap
         /\ Reached(b, RecordHeader - 1)
         /\ StrippedBefore(b, heap, RecordHeader) = {}
         /\ FilledInBefore(b, heap, RecordHeader) = {}
<1>1. Before(b, RecordHeader) = {} /\ \A p \in Starts(b) : ~(p <= RecordHeader - 1)
  BY BufferShape DEF Before
<1>2. Infos(b, RecordHeader - 1) = {}
  BY <1>1 DEF Infos, InfosUpTo
<1>3. SystemHeapAt(b, heap, RecordHeader - 1) = heap
  BY <1>2 DEF SystemHeapAt, Infos
<1> QED
  BY <1>1, <1>3 DEF Reached, StrippedBefore, FilledInBefore

\* Where the parser stops, at the end of the buffer or at an unknown tag, it has left
\* everything behind that it is ever to see.
LEMMA AllBehind ==
  ASSUME NEW b, IsBuffer(b), b.tag = "heap_dump", NEW heap \in BOOLEAN,
         NEW o \in Starts(b) \cup {b.count}, Reached(b, o - 1),
         o # b.count => b.sub[o].kind = "unknown"
  PROVE  /\ SystemHeapAt(b, heap, o - 1) = SystemHeapAt(b, heap, b.count)
         /\ StrippedBefore(b, heap, o) = Stripped(b, heap)
         /\ FilledInBefore(b, heap, o) = ToFillIn(b, heap)
<1>1. o \in Nat /\ Starts(b) \subseteq Nat /\ \A p \in Starts(b) : p < b.count
  BY BufferShape
<1>2. ASSUME NEW p \in Starts(b), p \notin Before(b, o)
      PROVE  ~Reached(b, p) /\ StripOf(b, heap, p) = {}
  <2>1. o <= p /\ o \in Starts(b) /\ b.sub[o].kind = "unknown"
    BY <1>1, <1>2 DEF Before
  <2>2. ~Reached(b, p)
    BY <2>1 DEF Reached
  <2> QED
    BY <2>2 DEF StripOf
<1>3. Infos(b, o - 1) = Infos(b, b.count)
  <2>1. \A p \in Starts(b) : Reached(b, p) => p <= o - 1 /\ p <= b.count
    BY <1>1, <1>2, BufferShape DEF Before
  <2> QED
    BY <2>1 DEF Infos, InfosUpTo
<1>4. Before(b, o) \subseteq Starts(b)
  BY DEF Before
<1>5. StrippedBefore(b, heap, o) = UNION {StripOf(b, heap, p) : p \in Starts(b)}
  BY <1>2, <1>4 DEF StrippedBefore
<1>6. FilledInBefore(b, heap, o)
        = UNION {StripOf(b, heap, p) : p \in {q \in Starts(b) : IsFilledIn(b, heap, q)}}
  BY <1>2, <1>4 DEF FilledInBefore
<1> QED
  BY <1>3, <1>5, <1>6, SameInfosSameHeap DEF Stripped, ToFillIn, IsFilledIn

\* The strip of a sub-record lies in it.
LEMMA StripWithin ==
  ASSUME NEW b, IsBuffer(b), b.tag = "heap_dump", NEW heap \in BOOLEAN, NEW o \in Starts(b)
  PROVE  StripOf(b, heap, o) \subseteq o .. (o + ArtSize(b.sub[o]) - 1)
<1> DEFINE r == b.sub[o]
           end == o + ArtSize(r)
           data == end - GetByteSizeFromType(r.type) * r.n
<1>1. o \in Nat /\ r \in SubRecord /\ ArtSize(r) \in Nat /\ end \in Nat
  BY BufferShape
<1>2. r.kind = "primitive_array" => data \in o .. end
  <2>1. GetByteSizeFromType(r.type) * r.n \in Nat
    BY <1>1, BasicTypeSize DEF SubRecord
  <2> QED
    BY <1>1, <2>1 DEF ArtSize
<1>3. StripOf(b, heap, o) = {} \/ StripOf(b, heap, o) = o .. end - 1
        \/ (r.kind = "primitive_array" /\ StripOf(b, heap, o) = data .. end - 1)
  BY DEF StripOf
<1> HIDE DEF end, data
<1>4. StripOf(b, heap, o) \subseteq o .. end - 1
  <2>1. CASE StripOf(b, heap, o) = {} \/ StripOf(b, heap, o) = o .. end - 1
    BY <2>1
  <2>2. CASE r.kind = "primitive_array" /\ StripOf(b, heap, o) = data .. end - 1
    <3>1. data \in Int /\ o <= data /\ o \in Int /\ end \in Int
      BY <1>1, <1>2, <2>2
    <3>2. data .. end - 1 \subseteq o .. end - 1
      BY <3>1
    <3> QED
      BY <2>2, <3>2
  <2> QED
    BY <1>3, <2>1, <2>2
<1>5. end = o + ArtSize(b.sub[o])
  BY DEF end
<1> QED
  BY <1>1, <1>4, <1>5

\* What is behind the parser ends there.
LEMMA BehindEnds ==
  ASSUME NEW b, IsBuffer(b), b.tag = "heap_dump", NEW heap \in BOOLEAN,
         NEW o \in Starts(b) \cup {b.count}
  PROVE  /\ StrippedBefore(b, heap, o) \subseteq RecordHeader .. (o - 1)
         /\ FilledInBefore(b, heap, o) \subseteq StrippedBefore(b, heap, o)
         /\ IsFiniteSet(StrippedBefore(b, heap, o)) /\ IsFiniteSet(FilledInBefore(b, heap, o))
<1>1. o \in Int /\ RecordHeader \in Int
  BY BufferShape
<1>2. ASSUME NEW p \in Before(b, o) PROVE StripOf(b, heap, p) \subseteq RecordHeader .. (o - 1)
  <2>1. p \in Starts(b) /\ p < o
    BY DEF Before
  <2>2. p \in Nat /\ RecordHeader <= p /\ p + ArtSize(b.sub[p]) <= o /\ ArtSize(b.sub[p]) \in Nat
    BY <2>1, BufferShape
  <2>3. StripOf(b, heap, p) \subseteq p .. (p + ArtSize(b.sub[p]) - 1)
    BY <2>1, StripWithin
  <2> QED
    BY <1>1, <2>2, <2>3
<1>3. StrippedBefore(b, heap, o) \subseteq RecordHeader .. (o - 1)
  BY <1>2 DEF StrippedBefore
<1>4. FilledInBefore(b, heap, o) \subseteq StrippedBefore(b, heap, o)
  BY DEF StrippedBefore, FilledInBefore
<1>5. IsFiniteSet(RecordHeader .. (o - 1))
  BY <1>1, FS_Interval
<1> QED
  BY <1>3, <1>4, <1>5, FS_Subset

\* One range more.
LEMMA RangesAppend ==
  ASSUME NEW list \in Seq(Nat \X Nat), NEW from \in Nat, NEW to \in Nat
  PROVE  Ranges(Append(list, <<from, to>>)) = Ranges(list) \cup (from .. (to - 1))
<1> DEFINE new == Append(list, <<from, to>>)
           n == Len(list)
<1>1. /\ n \in Nat /\ Len(new) = n + 1 /\ new[n + 1] = <<from, to>>
      /\ \A k \in 1 .. n : new[k] = list[k]
  OBVIOUS
<1>2. new[n + 1][1] = from /\ new[n + 1][2] = to
  BY <1>1
<1> HIDE DEF new, n
<1>3. 1 .. Len(new) = (1 .. n) \cup {n + 1}
  BY <1>1
<1>4. ASSUME NEW x
      PROVE  x \in Ranges(new) <=> x \in Ranges(list) \/ x \in from .. (to - 1)
  <2>1. x \in Ranges(new) <=> \E k \in 1 .. Len(new) : x \in new[k][1] .. (new[k][2] - 1)
    BY DEF Ranges
  <2>2. x \in Ranges(list) <=> \E k \in 1 .. n : x \in list[k][1] .. (list[k][2] - 1)
    BY DEF Ranges, n
  <2> QED
    BY <1>1, <1>2, <1>3, <2>1, <2>2
<1> QED
  BY <1>4 DEF new

\* What each case of ProcessHeap strips and counts, in terms of the buffer.
LEMMA CaseStrips ==
  ASSUME IInv, ProcessHeap, NEW end, end = first_index + ArtSize(buf.sub[first_index]),
         is_current_system_heap_ = SystemHeapAt(buf, stream_heap, first_index - 1),
         Reached(buf, first_index - 1)
  PROVE  /\ Reached(buf, first_index)
         /\ is_current_system_heap_' = SystemHeapAt(buf, stream_heap, first_index)
         /\ \/ /\ UNCHANGED strips /\ StripOf(buf, stream_heap, first_index) = {}
               /\ ~IsFilledIn(buf, stream_heap, first_index)
            \/ \E from \in first_index .. end :
                 /\ Strip(from, end)
                 /\ StripOf(buf, stream_heap, first_index) = from .. (end - 1)
                 /\ strip_bytes_sum_' =
                      IF IsFilledIn(buf, stream_heap, first_index) THEN strip_bytes_sum_
                      ELSE strip_bytes_sum_ + (end - from)
<1> DEFINE o == first_index
           r == buf.sub[o]
           S == StripOf(buf, stream_heap, o)
           system == SystemHeapAt(buf, stream_heap, o)
           filled == IsFilledIn(buf, stream_heap, o)
<1>1. /\ phase = "parse" /\ o \in Starts(buf) /\ r.kind # "unknown"
      /\ r.kind \in RootKinds \cup {"class", "instance", "object_array", "primitive_array",
                                    "heap_info", "obsolete"}
  BY DEF ProcessHeap, At, SkipRoot, SkipClass, InstanceDump, ObjectArrayDump,
         PrimitiveArrayDump, HeapDumpInfo, SkipObsolete, RootKinds
<1>2. buf.tag = "heap_dump" /\ IsBuffer(buf) /\ stream_heap \in BOOLEAN
      /\ is_current_system_heap_ \in BOOLEAN /\ strip_bytes_sum_ \in Nat
  BY <1>1 DEF IInv, ParseInv, TypeOK
<1>3. /\ o \in Nat /\ r \in SubRecord /\ ArtSize(r) \in Nat \ {0} /\ end \in Nat /\ o < end
      /\ Starts(buf) \subseteq Nat /\ r.sys \in BOOLEAN
  BY <1>1, <1>2, BufferShape DEF SubRecord
<1>4. Reached(buf, o)
  <2>1. \A p \in Starts(buf) : p <= o => p = o \/ p <= o - 1
    BY <1>3
  <2> QED
    BY <1>1, <2>1 DEF Reached
<1>5. system = IF r.kind = "heap_info" THEN r.sys ELSE is_current_system_heap_
  BY <1>1, <1>2, <1>4, HeapChangesAtInfo
<1>6. filled = (r.kind = "primitive_array" /\ ~system)
  BY DEF IsFilledIn
<1>7. S = CASE r.kind \in {"instance", "object_array", "heap_info"} /\ system -> o .. end - 1
            [] r.kind = "primitive_array" ->
                 (IF system THEN o ELSE end - GetByteSizeFromType(r.type) * r.n) .. end - 1
            [] OTHER -> {}
  BY <1>4 DEF StripOf
<1> HIDE DEF S, system, filled
<1> SUFFICES /\ is_current_system_heap_' = system
             /\ \/ UNCHANGED strips /\ S = {} /\ ~filled
                \/ \E from \in o .. end :
                     /\ Strip(from, end) /\ S = from .. (end - 1)
                     /\ strip_bytes_sum_' =
                          IF filled THEN strip_bytes_sum_ ELSE strip_bytes_sum_ + (end - from)
  BY <1>4 DEF S, system, filled
<1>8. o \in o .. end
  BY <1>3
<1>9. CASE SkipRoot
  <2>1. r.kind \in RootKinds
    BY <1>9 DEF SkipRoot, At
  <2> QED
    BY <1>9, <2>1, <1>5, <1>6, <1>7 DEF SkipRoot, RootKinds
<1>10. CASE SkipClass
  BY <1>10, <1>5, <1>6, <1>7 DEF SkipClass, At
<1>11. CASE SkipObsolete
  BY <1>11, <1>5, <1>6, <1>7 DEF SkipObsolete, At
<1>12. ASSUME StripInSystemHeap(end), r.kind \in {"instance", "object_array"}
       PROVE  /\ is_current_system_heap_' = system
              /\ \/ UNCHANGED strips /\ S = {} /\ ~filled
                 \/ /\ Strip(o, end) /\ S = o .. (end - 1) /\ ~filled
                    /\ strip_bytes_sum_' = strip_bytes_sum_ + (end - o)
  <2>1. is_current_system_heap_' = system /\ ~filled /\ system = is_current_system_heap_
    BY <1>12, <1>5, <1>6 DEF StripInSystemHeap
  <2>2. CASE is_current_system_heap_
    BY <1>12, <2>1, <2>2, <1>7 DEF StripInSystemHeap
  <2>3. CASE ~is_current_system_heap_
    BY <1>12, <2>1, <2>3, <1>7 DEF StripInSystemHeap
  <2> QED
    BY <2>2, <2>3
<1>13. CASE InstanceDump
  <2>1. StripInSystemHeap(end) /\ r.kind = "instance"
    BY <1>13, <1>3, CodeSizes DEF InstanceDump, At
  <2> QED
    BY <2>1, <1>8, <1>12
<1>14. CASE ObjectArrayDump
  <2>1. StripInSystemHeap(end) /\ r.kind = "object_array"
    BY <1>14, <1>3, CodeSizes DEF ObjectArrayDump, At
  <2> QED
    BY <2>1, <1>8, <1>12
<1>15. CASE PrimitiveArrayDump
  <2>1. r.kind = "primitive_array"
    BY <1>15 DEF PrimitiveArrayDump, At
  <2>2. PrimitiveArrayEnd(o, r) = end /\ PrimitiveArrayData(o) \in o .. end
    BY <1>3, <2>1, CodeSizes
  <2>3. PrimitiveArrayData(o) = end - GetByteSizeFromType(r.type) * r.n
    <3>1. GetByteSizeFromType(r.type) * r.n \in Nat
      BY <1>3, BasicTypeSize DEF SubRecord
    <3>2. PrimitiveArrayData(o) \in Nat
      BY <1>3, <2>2
    <3> QED
      BY <2>2, <3>1, <3>2 DEF PrimitiveArrayEnd
  <2>4. /\ IF is_current_system_heap_
           THEN Strip(o, end) /\ strip_bytes_sum_' = strip_bytes_sum_ + (end - o)
           ELSE Strip(PrimitiveArrayData(o), end) /\ UNCHANGED strip_bytes_sum_
        /\ UNCHANGED is_current_system_heap_
    BY <1>15, <2>2 DEF PrimitiveArrayDump
  <2>5. is_current_system_heap_' = system /\ system = is_current_system_heap_ /\ filled = ~system
    BY <1>5, <1>6, <2>1, <2>4
  <2>6. CASE is_current_system_heap_
    BY <1>7, <1>8, <2>1, <2>4, <2>5, <2>6
  <2>7. CASE ~is_current_system_heap_
    <3>1. S = PrimitiveArrayData(o) .. (end - 1)
      BY <1>7, <2>1, <2>3, <2>5, <2>7
    <3> QED
      BY <2>2, <2>4, <2>5, <2>7, <3>1
  <2> QED
    BY <2>6, <2>7
<1>16. CASE HeapDumpInfo
  <2>1. r.kind = "heap_info"
    BY <1>16 DEF HeapDumpInfo, At
  <2>2. o + HEAP_TAG_BYTE_SIZE + HEAP_TYPE_BYTE_SIZE + STRING_ID_BYTE_SIZE = end
    BY <1>3, <2>1, CodeSizes
  <2>3. /\ is_current_system_heap_' = r.sys
        /\ IF r.sys THEN Strip(o, end) /\ strip_bytes_sum_' = strip_bytes_sum_ + (end - o)
           ELSE UNCHANGED strips
    BY <1>16, <2>2 DEF HeapDumpInfo
  <2>4. system = r.sys /\ ~filled
    BY <1>5, <1>6, <2>1
  <2>5. CASE r.sys
    BY <1>7, <1>8, <2>1, <2>3, <2>4, <2>5
  <2>6. CASE ~r.sys
    BY <1>7, <2>1, <2>3, <2>4, <2>6
  <2> QED
    BY <2>5, <2>6
<1> QED
  BY <1>9, <1>10, <1>11, <1>13, <1>14, <1>15, <1>16 DEF ProcessHeap

\* A range that lies ahead of a set adds its length to the set's.
LEMMA AddRange ==
  ASSUME NEW S, IsFiniteSet(S), NEW o \in Int, NEW from \in Int, NEW end \in Int,
         \A x \in S : x \in Int /\ x < o, o <= from, from <= end
  PROVE  Cardinality(S \cup (from .. (end - 1))) = Cardinality(S) + (end - from)
<1>1. IsFiniteSet(from .. (end - 1)) /\ Cardinality(from .. (end - 1)) = end - from
  <2>1. Cardinality(from .. (end - 1)) = IF from > end - 1 THEN 0 ELSE (end - 1) - from + 1
    BY FS_Interval
  <2>2. IsFiniteSet(from .. (end - 1))
    BY FS_Interval
  <2> QED
    BY <2>1, <2>2
<1>2. S \cap (from .. (end - 1)) = {}
  OBVIOUS
<1>3. Cardinality(S) \in Nat
  BY FS_CardinalityType
<1> DEFINE T == from .. (end - 1)
<1> HIDE DEF T
<1>4. IsFiniteSet(T) /\ Cardinality(T) = end - from /\ S \cap T = {}
  BY <1>1, <1>2 DEF T
<1>5. Cardinality(S \cup T) = Cardinality(S) + Cardinality(T) - Cardinality(S \cap T)
  BY <1>4, FS_Union
<1>6. Cardinality(S \cup T) = Cardinality(S) + (end - from)
  BY <1>3, <1>4, <1>5, FS_EmptySet
<1> QED
  BY <1>6 DEF T

LEMMA ParseKept ==
  ASSUME IInv, KeptInv, ProcessHeap
  PROVE  KeptInv'
<1> DEFINE o == first_index
           end == o + ArtSize(buf.sub[o])
           S == StripOf(buf, stream_heap, o)
           filled == IsFilledIn(buf, stream_heap, o)
           gone == StrippedBefore(buf, stream_heap, o)
           back == FilledInBefore(buf, stream_heap, o)
<1>1. ProcessHeapCase
  BY CasesOfProcessHeap
<1>2. /\ phase = "parse" /\ phase' = "parse" /\ o \in Starts(buf) /\ first_index' = end
      /\ UNCHANGED <<buf, stream_heap, record_length, out>>
  BY <1>1 DEF ProcessHeapCase, At, ParseKeeps
<1>3. /\ buf.tag = "heap_dump" /\ IsBuffer(buf) /\ stream_heap \in BOOLEAN
      /\ strip_list \in Seq(Nat \X Nat) /\ strip_bytes_sum_ \in Nat
      /\ \A k \in 1 .. Len(strip_list) : strip_list[k][2] <= o
  BY <1>2 DEF IInv, ParseInv, TypeOK
<1>4. /\ is_current_system_heap_ = SystemHeapAt(buf, stream_heap, o - 1) /\ Reached(buf, o - 1)
      /\ Ranges(strip_list) = gone /\ Apart(strip_list)
      /\ record_length = buf.count - RecordHeader
      /\ Cardinality(gone) = strip_bytes_sum_ + Cardinality(back)
  BY <1>2, <1>3 DEF KeptInv, HeapInv, StripInv, ApartInv, LengthInv
<1>5. /\ Reached(buf, o) /\ is_current_system_heap_' = SystemHeapAt(buf, stream_heap, o)
      /\ \/ UNCHANGED strips /\ S = {} /\ ~filled
         \/ \E from \in o .. end :
              /\ Strip(from, end) /\ S = from .. (end - 1)
              /\ strip_bytes_sum_' =
                   IF filled THEN strip_bytes_sum_ ELSE strip_bytes_sum_ + (end - from)
  BY <1>4, CaseStrips
<1>6. /\ Reached(buf, end - 1)
      /\ SystemHeapAt(buf, stream_heap, end - 1) = SystemHeapAt(buf, stream_heap, o)
      /\ StrippedBefore(buf, stream_heap, end) = gone \cup S
      /\ FilledInBefore(buf, stream_heap, end) = IF filled THEN back \cup S ELSE back
  <2>1. end = o + ArtSize(buf.sub[o])
    OBVIOUS
  <2> HIDE DEF end
  <2>2. /\ IsBuffer(buf) /\ buf.tag = "heap_dump" /\ stream_heap \in BOOLEAN
        /\ o \in Starts(buf) /\ Reached(buf, o)
    BY <1>2, <1>3, <1>5
  <2>3. Reached(buf, end - 1)
    BY <2>1, <2>2, OneMoreBehind
  <2>4. SystemHeapAt(buf, stream_heap, end - 1) = SystemHeapAt(buf, stream_heap, o)
    BY <2>1, <2>2, OneMoreBehind
  <2>5. StrippedBefore(buf, stream_heap, end) = gone \cup S
    BY <2>1, <2>2, OneMoreBehind
  <2>6. FilledInBefore(buf, stream_heap, end) = IF filled THEN back \cup S ELSE back
    <3>1. /\ filled => FilledInBefore(buf, stream_heap, end) = back \cup S
          /\ ~filled => FilledInBefore(buf, stream_heap, end) = back
      BY <2>1, <2>2, OneMoreBehind
    <3> HIDE DEF filled
    <3> QED
      BY <3>1
  <2> QED
    BY <2>3, <2>4, <2>5, <2>6
<1>7. o \in Nat /\ end \in Nat /\ ArtSize(buf.sub[o]) \in Nat \ {0}
  BY <1>2, <1>3, BufferShape
<1>8. /\ IsFiniteSet(gone) /\ IsFiniteSet(back)
      /\ \A x \in gone : x \in Int /\ x < o
      /\ \A x \in back : x \in Int /\ x < o
      /\ Cardinality(gone) \in Nat /\ Cardinality(back) \in Nat
  <2>1. /\ gone \subseteq RecordHeader .. (o - 1) /\ back \subseteq gone
        /\ IsFiniteSet(gone) /\ IsFiniteSet(back)
    BY <1>2, <1>3, BehindEnds
  <2>2. \A x \in RecordHeader .. (o - 1) : x \in Int /\ x < o
    BY <1>3, <1>7, BufferShape
  <2> QED
    BY <2>1, <2>2, FS_CardinalityType
<1> HIDE DEF end, S, filled, gone, back
<1>9. /\ Ranges(strip_list') = gone \cup S
      /\ Apart(strip_list')
      /\ Cardinality(gone \cup S)
           = strip_bytes_sum_' + Cardinality(IF filled THEN back \cup S ELSE back)
  <2>1. CASE UNCHANGED strips /\ S = {} /\ ~filled
    <3>1. strip_list' = strip_list /\ strip_bytes_sum_' = strip_bytes_sum_
      BY <2>1
    <3>2. gone \cup S = gone
      BY <2>1
    <3> QED
      BY <1>4, <2>1, <3>1, <3>2
  <2>2. ASSUME NEW from \in o .. end, Strip(from, end), S = from .. (end - 1),
               strip_bytes_sum_' =
                 IF filled THEN strip_bytes_sum_ ELSE strip_bytes_sum_ + (end - from)
        PROVE  /\ Ranges(strip_list') = gone \cup S
               /\ Apart(strip_list')
               /\ Cardinality(gone \cup S)
                    = strip_bytes_sum_' + Cardinality(IF filled THEN back \cup S ELSE back)
    <3>1. from \in Nat /\ o <= from /\ from <= end
      BY <1>7, <2>2
    <3>2. strip_list' = Append(strip_list, <<from, end>>)
      BY <2>2 DEF Strip
    <3>3. Ranges(strip_list') = gone \cup S
      BY <1>3, <1>4, <1>7, <2>2, <3>1, <3>2, RangesAppend
    <3>4. Apart(strip_list')
      <4> DEFINE n == Len(strip_list)
      <4>1. /\ n \in Nat /\ Len(strip_list') = n + 1 /\ strip_list'[n + 1] = <<from, end>>
            /\ \A k \in 1 .. n : strip_list'[k] = strip_list[k] /\ strip_list[k] \in Nat \X Nat
        BY <1>3, <1>7, <3>1, <3>2
      <4>2. \A k \in 1 .. n : strip_list[k][2] <= from
        BY <1>3, <1>7, <3>1, <4>1, SMTT(30)
      <4> HIDE DEF n
      <4>3. ASSUME NEW j \in 1 .. n + 1, NEW k \in 1 .. n + 1, j < k
            PROVE  strip_list'[j][2] <= strip_list'[k][1]
        <5>1. j \in 1 .. n
          BY <4>1, <4>3
        <5>2. CASE k = n + 1
          BY <4>1, <4>2, <5>1, <5>2
        <5>3. CASE k # n + 1
          <6>1. k \in 1 .. n
            BY <4>1, <4>3, <5>3
          <6> QED
            BY <1>4, <4>1, <4>3, <5>1, <6>1 DEF Apart, n
        <5> QED
          BY <5>2, <5>3
      <4> QED
        BY <4>1, <4>3 DEF Apart
    <3>5. Cardinality(gone \cup S) = Cardinality(gone) + (end - from)
      BY <1>7, <1>8, <2>2, <3>1, AddRange
    <3>6. Cardinality(back \cup S) = Cardinality(back) + (end - from)
      BY <1>7, <1>8, <2>2, <3>1, AddRange
    <3>7. CASE filled
      BY <1>3, <1>4, <1>7, <1>8, <2>2, <3>1, <3>3, <3>4, <3>5, <3>6, <3>7
    <3>8. CASE ~filled
      BY <1>3, <1>4, <1>7, <1>8, <2>2, <3>1, <3>3, <3>4, <3>5, <3>8
    <3> QED
      BY <3>7, <3>8
  <2> QED
    BY <1>5, <2>1, <2>2
<1>10. ~Writing'
  BY <1>2 DEF Writing, HookReturns
<1>11. HeapInv'
  BY <1>2, <1>5, <1>6, <1>10 DEF HeapInv
<1>12. StripInv' /\ ApartInv'
  BY <1>2, <1>6, <1>9, <1>10 DEF StripInv, ApartInv
<1>13. WrittenInv'
  BY <1>2 DEF WrittenInv, HookReturns
<1>14. LengthInv'
  BY <1>2, <1>4, <1>6, <1>9, <1>10 DEF LengthInv
<1> QED
  BY <1>11, <1>12, <1>13, <1>14 DEF KeptInv

LEMMA NoRanges == Ranges(<<>>) = {} /\ Apart(<<>>)
BY DEF Ranges, Apart

LEMMA InitKept == Init => KeptInv
<1> SUFFICES ASSUME Init PROVE KeptInv
  OBVIOUS
<1>1. phase = "idle" /\ is_current_system_heap_ = FALSE /\ stream_heap = FALSE
  BY DEF Init
<1> QED
  BY <1>1
  DEF KeptInv, HeapInv, StripInv, ApartInv, WrittenInv, LengthInv, Writing, HookReturns

LEMMA HookWriteKept ==
  ASSUME IInv, KeptInv, NEW f \in Fds, NEW b \in Buffers, HookWriteInternal(f, b)
  PROVE  KeptInv'
<1>1. /\ phase = "idle" /\ buf' = b /\ strip_list' = <<>> /\ strip_bytes_sum_' = 0
      /\ phase' = (IF b.tag = "heap_dump" THEN "parse" ELSE "scan")
      /\ first_index' = RecordHeader /\ record_length' = b.count - RecordHeader
      /\ start_index' = 0 /\ out' = <<>>
      /\ UNCHANGED <<is_current_system_heap_, stream_heap>>
  BY DEF HookWriteInternal, reset
<1>2. is_current_system_heap_ = stream_heap /\ stream_heap \in BOOLEAN
  BY <1>1 DEF KeptInv, HeapInv, IInv, TypeOK
<1>3. Ranges(strip_list') = {} /\ Apart(strip_list') /\ Written' = {}
  BY <1>1, NoRanges DEF Written, Ranges
<1>4. ApartInv'
  BY <1>3 DEF ApartInv
<1>5. CASE b.tag = "heap_dump"
  <2>1. /\ phase' = "parse" /\ buf'.tag = "heap_dump"
        /\ ~Writing'
    BY <1>1, <1>5 DEF Writing, HookReturns
  <2>2. /\ SystemHeapAt(b, stream_heap, RecordHeader - 1) = stream_heap
        /\ Reached(b, RecordHeader - 1)
        /\ StrippedBefore(b, stream_heap, RecordHeader) = {}
        /\ FilledInBefore(b, stream_heap, RecordHeader) = {}
    BY <1>2, <1>5, NothingBehind, BuffersAssumption
  <2>3. HeapInv' /\ StripInv'
    BY <1>1, <1>2, <1>3, <2>1, <2>2 DEF HeapInv, StripInv
  <2>4. LengthInv'
    <3>1. Cardinality({}) = 0
      BY FS_EmptySet
    <3> QED
      BY <1>1, <2>1, <2>2, <3>1 DEF LengthInv
  <2>5. WrittenInv'
    BY <2>1 DEF WrittenInv, HookReturns
  <2> QED
    BY <1>4, <2>3, <2>4, <2>5 DEF KeptInv
<1>6. CASE b.tag # "heap_dump"
  <2>1. phase' = "scan" /\ buf'.tag # "heap_dump"
    BY <1>1, <1>6
  <2>2. HeapInv' /\ StripInv'
    BY <1>1, <1>2, <1>3, <2>1 DEF HeapInv, StripInv, HeapAfterBuffer, Stripped
  <2>3. WrittenInv'
    BY <1>1, <1>3, <2>1 DEF WrittenInv, HookReturns, Done
  <2>4. LengthInv'
    BY <2>1 DEF LengthInv
  <2> QED
    BY <1>4, <2>2, <2>3, <2>4 DEF KeptInv
<1> QED
  BY <1>5, <1>6

\* The writes of others do not touch the heap flag.
LEMMA PassThroughKept ==
  ASSUME IInv, KeptInv, NEW f \in Fds, NEW b \in Buffers, PassThrough(f, b)
  PROVE  KeptInv'
<1>1. /\ phase = "idle" /\ phase' = "return" /\ fd' = f /\ f # hprof_fd_
      /\ UNCHANGED <<hprof_fd_, is_current_system_heap_, stream_heap>>
  BY DEF PassThrough
<1>2. ~Writing' /\ ~HookReturns'
  BY <1>1 DEF Writing, HookReturns
<1> QED
  BY <1>1, <1>2 DEF KeptInv, HeapInv, StripInv, ApartInv, WrittenInv, LengthInv

LEMMA PatchLengthKept ==
  ASSUME IInv, KeptInv, PatchLength
  PROVE  KeptInv'
<1>1. /\ phase = "parse" /\ phase' = "scan" /\ record_length' = record_length - strip_bytes_sum_
      /\ first_index >= buf.count \/ At(first_index, {"unknown"})
      /\ UNCHANGED <<is_current_system_heap_, buf, strip_list, strip_bytes_sum_, start_index, out,
                     stream_heap>>
  BY DEF PatchLength
<1>2. /\ buf.tag = "heap_dump" /\ IsBuffer(buf) /\ stream_heap \in BOOLEAN
      /\ first_index \in Starts(buf) \cup {buf.count} /\ start_index = 0 /\ out = <<>>
  BY <1>1 DEF IInv, ParseInv, TypeOK, ListInv
<1>3. /\ is_current_system_heap_ = SystemHeapAt(buf, stream_heap, first_index - 1)
      /\ Reached(buf, first_index - 1)
      /\ Ranges(strip_list) = StrippedBefore(buf, stream_heap, first_index) /\ Apart(strip_list)
      /\ record_length = buf.count - RecordHeader
      /\ Cardinality(StrippedBefore(buf, stream_heap, first_index))
           = strip_bytes_sum_ + Cardinality(FilledInBefore(buf, stream_heap, first_index))
  BY <1>1, <1>2 DEF KeptInv, HeapInv, StripInv, ApartInv, LengthInv
<1>4. first_index # buf.count => buf.sub[first_index].kind = "unknown"
  <2>1. first_index \in Starts(buf) => first_index < buf.count /\ first_index \in Nat
    BY <1>2, BufferShape
  <2>2. buf.count \in Nat
    BY <1>2, BufferShape
  <2> QED
    BY <1>1, <1>2, <2>1, <2>2 DEF At
<1>5. /\ SystemHeapAt(buf, stream_heap, first_index - 1) = SystemHeapAt(buf, stream_heap, buf.count)
      /\ StrippedBefore(buf, stream_heap, first_index) = Stripped(buf, stream_heap)
      /\ FilledInBefore(buf, stream_heap, first_index) = ToFillIn(buf, stream_heap)
  BY <1>2, <1>3, <1>4, AllBehind
<1>6. HeapInv'
  BY <1>1, <1>2, <1>3, <1>5 DEF HeapInv, HeapAfterBuffer
<1>7. StripInv' /\ ApartInv'
  BY <1>1, <1>3, <1>5 DEF StripInv, ApartInv
<1>8. WrittenInv'
  <2>1. Written' = {} /\ Done' = 0
    BY <1>1, <1>2 DEF Written, Done
  <2> QED
    BY <1>1, <2>1 DEF WrittenInv, HookReturns
<1>9. LengthInv'
  BY <1>1, <1>2, <1>3, <1>5 DEF LengthInv
<1> QED
  BY <1>6, <1>7, <1>8, <1>9 DEF KeptInv

\* What the steps of the write loop leave as it is.
LEMMA LoopKept ==
  ASSUME IInv, KeptInv, phase \in {"scan", "write"}, phase' \in {"scan", "write", "return"},
         UNCHANGED WriteKeeps, WrittenInv'
  PROVE  KeptInv'
<1>1. UNCHANGED <<hprof_fd_, is_current_system_heap_, fd, buf, strip_list, strip_bytes_sum_,
                  record_length, stream_heap>>
  BY DEF WriteKeeps
<1>2. fd = hprof_fd_ /\ phase' # "idle" /\ phase' # "parse"
  BY DEF IInv, CallInv
<1>3. Writing /\ Writing' /\ (phase' = "return" => fd' = hprof_fd_')
  BY <1>1, <1>2 DEF Writing, HookReturns
<1>4. HeapInv'
  BY <1>1, <1>2, <1>3 DEF KeptInv, HeapInv, HeapAfterBuffer
<1>5. StripInv' /\ ApartInv'
  BY <1>1, <1>2, <1>3 DEF KeptInv, StripInv, ApartInv
<1>6. LengthInv'
  BY <1>1, <1>2, <1>3 DEF KeptInv, LengthInv
<1> QED
  BY <1>4, <1>5, <1>6 DEF KeptInv

\* No strip reaches into the piece that is being written.
LEMMA PieceHasNoStrip ==
  ASSUME IInv, KeptInv, phase \in {"scan", "write"},
         NEW x \in start_index .. (PieceEnd - 1)
  PROVE  x \notin Ranges(strip_list)
<1>1. /\ strip_list \in Seq(Nat \X Nat) /\ Len(strip_list) \in Nat /\ i \in 0 .. Len(strip_list)
      /\ start_index = (IF i = 0 THEN 0 ELSE strip_list[i][2])
      /\ Apart(strip_list) /\ Ordered(strip_list, buf.count)
      /\ PieceEnd \in Nat /\ start_index \in Nat
  BY PieceNonNegative DEF IInv, TypeOK, WriteInv, KeptInv, ApartInv, StripsOrdered
<1>2. SUFFICES ASSUME NEW k \in 1 .. Len(strip_list),
                      x \in strip_list[k][1] .. (strip_list[k][2] - 1)
               PROVE  FALSE
  BY DEF Ranges
<1>3. \A n \in 1 .. Len(strip_list) :
        strip_list[n][1] \in Nat /\ strip_list[n][2] \in Nat /\ strip_list[n][1] <= strip_list[n][2]
  BY <1>1 DEF Ordered
<1>4. CASE k <= i
  <2>1. i \in 1 .. Len(strip_list) /\ strip_list[k][2] <= strip_list[i][2]
    <3>1. i \in 1 .. Len(strip_list)
      BY <1>1, <1>4
    <3>2. k < i => strip_list[k][2] <= strip_list[i][1]
      BY <1>1, <3>1 DEF Apart
    <3> QED
      BY <1>1, <1>3, <1>4, <3>1, <3>2
  <2> QED
    BY <1>1, <1>2, <1>3, <1>4, <2>1, SMTT(30)
<1>5. CASE k > i
  <2>1. i + 1 \in 1 .. Len(strip_list) /\ PieceEnd = strip_list[i + 1][1]
    BY <1>1, <1>5, SMTT(30) DEF PieceEnd
  <2>2. i + 1 < k => strip_list[i + 1][2] <= strip_list[k][1]
    BY <1>1, <2>1 DEF Apart
  <2>3. PieceEnd <= strip_list[k][1]
    BY <1>1, <1>3, <1>5, <2>1, <2>2, SMTT(30)
  <2> QED
    BY <1>1, <1>2, <1>3, <2>3
<1> QED
  BY <1>1, <1>4, <1>5

\* With a piece done, all is done up to the end of the strip behind it.
LEMMA NextPieceKept ==
  ASSUME IInv, KeptInv, phase \in {"scan", "write"}, NextPiece, UNCHANGED WriteKeeps,
         Written' = (0 .. PieceEnd - 1) \ Ranges(strip_list)
  PROVE  KeptInv'
<1>1. /\ PieceEnd \in Nat /\ NextStart \in Nat /\ PieceEnd <= NextStart
      /\ i \in 0 .. Len(strip_list) /\ Len(strip_list) \in Nat
  BY PieceNonNegative DEF IInv, TypeOK
<1>2. /\ start_index' = NextStart /\ strip_list' = strip_list /\ buf' = buf
      /\ phase' = (IF i < Len(strip_list) THEN "scan" ELSE "return")
  BY DEF NextPiece, WriteKeeps
<1>3. WrittenInv'
  <2>1. CASE i < Len(strip_list)
    <3>1. PieceEnd = strip_list[i + 1][1] /\ NextStart = strip_list[i + 1][2] /\ i + 1 \in 1 .. Len(strip_list)
      BY <1>1, <2>1 DEF PieceEnd, NextStart
    <3>2. PieceEnd .. (NextStart - 1) \subseteq Ranges(strip_list)
      BY <3>1 DEF Ranges
    <3>3. \A x \in 0 .. NextStart - 1 : x \in 0 .. PieceEnd - 1 \/ x \in PieceEnd .. (NextStart - 1)
      BY <1>1
    <3>4. (0 .. NextStart - 1) \ Ranges(strip_list) = (0 .. PieceEnd - 1) \ Ranges(strip_list)
      BY <1>1, <3>2, <3>3
    <3>5. phase' = "scan" /\ Done' = NextStart
      BY <1>2, <2>1 DEF Done
    <3> QED
      BY <1>2, <3>4, <3>5 DEF WrittenInv, HookReturns
  <2>2. CASE i = Len(strip_list)
    <3>1. PieceEnd = buf.count /\ phase' = "return"
      BY <1>1, <1>2, <2>2 DEF PieceEnd
    <3> QED
      BY <1>2, <3>1 DEF WrittenInv
  <2> QED
    BY <1>1, <2>1, <2>2
<1>4. phase' \in {"scan", "write", "return"}
  BY <1>2
<1> QED
  BY <1>3, <1>4, LoopKept

LEMMA EmptyPieceKept == ASSUME IInv, KeptInv, EmptyPiece PROVE KeptInv'
<1>1. /\ phase = "scan" /\ PieceEnd = start_index /\ NextPiece /\ UNCHANGED WriteKeeps /\ out' = out
  BY PieceNonNegative DEF EmptyPiece, IInv, TypeOK
<1>2. Written' = (0 .. PieceEnd - 1) \ Ranges(strip_list)
  BY <1>1 DEF KeptInv, WrittenInv, Done, Written
<1> QED
  BY <1>1, <1>2, NextPieceKept

LEMMA StartPieceKept == ASSUME IInv, KeptInv, StartPiece PROVE KeptInv'
<1>1. /\ phase = "scan" /\ phase' = "write" /\ left' = PieceEnd - start_index
      /\ UNCHANGED <<i, start_index, out>> /\ UNCHANGED WriteKeeps /\ UNCHANGED <<strip_list, buf>>
  BY DEF StartPiece, WriteKeeps
<1>2. PieceEnd \in Nat /\ start_index \in Nat /\ PieceEnd' = PieceEnd
  BY <1>1, PieceNonNegative DEF IInv, TypeOK, PieceEnd
<1>3. Done' = Done /\ Written' = Written
  BY <1>1, <1>2 DEF Done, Written
<1>4. WrittenInv'
  BY <1>1, <1>3 DEF KeptInv, WrittenInv, HookReturns
<1> QED
  BY <1>1, <1>4, LoopKept

LEMMA FullyWriteKept == ASSUME IInv, KeptInv, FullyWrite PROVE KeptInv'
<1>1. PICK written \in {left} \cup {w \in ShortWrites : w < left} :
        /\ out' = Append(out, <<PieceEnd - left, PieceEnd - left + written>>)
        /\ left' = left - written
        /\ IF written = left THEN NextPiece ELSE UNCHANGED <<phase, i, start_index>>
  BY DEF FullyWrite, Position
<1>2. /\ phase = "write" /\ UNCHANGED WriteKeeps /\ UNCHANGED <<strip_list, buf>>
      /\ out \in Seq(Nat \X Nat) /\ PieceEnd \in Nat /\ start_index \in Nat
      /\ left \in 1 .. (PieceEnd - start_index)
  BY PieceNonNegative DEF FullyWrite, IInv, TypeOK, WriteInv, WriteKeeps
<1>3. written \in Nat \ {0} /\ written <= left
  BY <1>2, WritesAssumption
<1> DEFINE from == PieceEnd - left
           to == PieceEnd - left + written
<1>4. from \in Nat /\ to \in Nat /\ start_index <= from /\ from <= to /\ to <= PieceEnd
  BY <1>2, <1>3
<1>5. Written = (0 .. from - 1) \ Ranges(strip_list)
  BY <1>2 DEF KeptInv, WrittenInv, Done
<1>6. out' = Append(out, <<from, to>>)
  BY <1>1
<1>7. written = left => to = PieceEnd
  BY <1>2
<1>8. written # left => to = PieceEnd - left'
  BY <1>1, <1>2, <1>3
<1> HIDE DEF from, to
<1>9. Written' = Written \cup (from .. (to - 1))
  <2>1. Written = Ranges(out) /\ Written' = Ranges(out')
    BY DEF Written, Ranges
  <2>2. Ranges(Append(out, <<from, to>>)) = Ranges(out) \cup (from .. (to - 1))
    BY <1>2, <1>4, RangesAppend
  <2> QED
    BY <1>6, <2>1, <2>2
<1>10. from .. (to - 1) \subseteq start_index .. (PieceEnd - 1)
  BY <1>2, <1>4
<1>11. \A x \in from .. (to - 1) : x \notin Ranges(strip_list)
  BY <1>2, <1>10, PieceHasNoStrip
<1>12. \A x : x \in 0 .. to - 1 <=> x \in 0 .. from - 1 \/ x \in from .. (to - 1)
  BY <1>4
<1>13. Written' = (0 .. to - 1) \ Ranges(strip_list)
  BY <1>5, <1>9, <1>11, <1>12
<1>14. CASE written = left
  BY <1>1, <1>2, <1>7, <1>13, <1>14, NextPieceKept
<1>15. CASE written # left
  <2>1. phase' = "write" /\ UNCHANGED <<i, start_index>> /\ PieceEnd' = PieceEnd
    BY <1>1, <1>2, <1>15 DEF PieceEnd
  <2>2. Done' = to
    BY <1>8, <1>15, <2>1 DEF Done
  <2>3. WrittenInv'
    BY <1>2, <1>13, <2>1, <2>2 DEF WrittenInv, HookReturns
  <2> QED
    BY <1>2, <2>1, <2>3, LoopKept
<1> QED
  BY <1>14, <1>15

\* On its return the history takes over what the parser has kept.
LEMMA ReturnKept == ASSUME IInv, KeptInv, Return PROVE KeptInv'
<1>1. /\ phase = "return" /\ phase' = "idle" /\ UNCHANGED <<is_current_system_heap_, hprof_fd_>>
      /\ stream_heap' = (IF fd = hprof_fd_ /\ buf.tag = "heap_dump"
                         THEN SystemHeapAt(buf, stream_heap, buf.count) ELSE stream_heap)
  BY DEF Return
<1>2. is_current_system_heap_ = stream_heap'
  BY <1>1 DEF KeptInv, HeapInv, Writing, HookReturns, HeapAfterBuffer
<1> QED
  BY <1>1, <1>2
  DEF KeptInv, HeapInv, StripInv, ApartInv, WrittenInv, LengthInv, Writing, HookReturns

LEMMA NamingKept ==
  ASSUME IInv, KeptInv,
         \/ \E name \in Names : SetHprofName(name)
         \/ \E path \in Paths, f \in Fds : HookOpenInternal(path, f)
         \/ \E path \in Paths : HookOpenFails(path)
         \/ \E f \in Fds : Close(f)
  PROVE  KeptInv'
<1>1. phase = "idle" /\ phase' = "idle" /\ UNCHANGED <<is_current_system_heap_, stream_heap>>
  BY DEF SetHprofName, HookOpenInternal, HookOpenFails, Close, OpenKeeps
<1> QED
  BY <1>1
  DEF KeptInv, HeapInv, StripInv, ApartInv, WrittenInv, LengthInv, Writing, HookReturns

LEMMA StutterKept == ASSUME IInv, KeptInv, UNCHANGED vars \/ DiskFails PROVE KeptInv'
<1>1. UNCHANGED <<hprof_fd_, is_current_system_heap_, phase, fd, buf, first_index, strip_list,
                  strip_bytes_sum_, record_length, i, start_index, left, out, stream_heap>>
  BY DEF vars, DiskFails
<1>2. /\ (Writing' <=> Writing) /\ (HookReturns' <=> HookReturns) /\ HeapAfterBuffer' = HeapAfterBuffer
      /\ Written' = Written /\ Done' = Done
  BY <1>1 DEF Writing, HookReturns, HeapAfterBuffer, Written, Done, PieceEnd
<1>3. HeapInv' /\ StripInv' /\ ApartInv'
  BY <1>1, <1>2 DEF KeptInv, HeapInv, StripInv, ApartInv
<1>4. WrittenInv'
  BY <1>1, <1>2 DEF KeptInv, WrittenInv
<1>5. LengthInv'
  BY <1>1, <1>2 DEF KeptInv, LengthInv
<1> QED
  BY <1>3, <1>4, <1>5 DEF KeptInv

LEMMA KeptStep == ASSUME IInv, KeptInv, [Next]_vars PROVE KeptInv'
<1>1. CASE \E name \in Names : SetHprofName(name)
  BY <1>1, NamingKept
<1>2. CASE \E path \in Paths, f \in Fds : HookOpenInternal(path, f)
  BY <1>2, NamingKept
<1>12. CASE (\E path \in Paths : HookOpenFails(path)) \/ (\E f \in Fds : Close(f))
  BY <1>12, NamingKept
<1>3. CASE \E f \in Fds, b \in Buffers : PassThrough(f, b)
  BY <1>3, PassThroughKept
<1>4. CASE \E f \in Fds, b \in Buffers : HookWriteInternal(f, b)
  BY <1>4, HookWriteKept
<1>5. CASE ProcessHeap
  BY <1>5, ParseKept
<1>6. CASE PatchLength
  BY <1>6, PatchLengthKept
<1>7. CASE EmptyPiece
  BY <1>7, EmptyPieceKept
<1>8. CASE StartPiece
  BY <1>8, StartPieceKept
<1>9. CASE FullyWrite
  BY <1>9, FullyWriteKept
<1>10. CASE Return
  BY <1>10, ReturnKept
<1>11. CASE DiskFails \/ FullyWriteFails \/ DumpOver \/ UNCHANGED vars
  BY <1>11, StutterKept DEF FullyWriteFails, DumpOver
<1> QED
  BY <1>1, <1>2, <1>3, <1>4, <1>5, <1>6, <1>7, <1>8, <1>9, <1>10, <1>11, <1>12
  DEF Next, WriterStep, WriteLoop

\* The strips of a whole buffer lie behind its header, and what is to be filled
\* in again is part of them.
LEMMA StrippedInBody ==
  ASSUME NEW b, IsBuffer(b), b.tag = "heap_dump", NEW heap \in BOOLEAN
  PROVE  /\ Stripped(b, heap) \subseteq RecordHeader .. (b.count - 1)
         /\ ToFillIn(b, heap) \subseteq Stripped(b, heap)
<1>1. Before(b, b.count) = Starts(b)
  BY BufferShape DEF Before
<1>2. Stripped(b, heap) = StrippedBefore(b, heap, b.count)
  BY <1>1 DEF Stripped, StrippedBefore
<1>3. StrippedBefore(b, heap, b.count) \subseteq RecordHeader .. (b.count - 1)
  BY BehindEnds
<1>4. ToFillIn(b, heap) \subseteq Stripped(b, heap)
  BY DEF ToFillIn, Stripped
<1> QED
  BY <1>2, <1>3, <1>4

\* Counting: what is left of c bytes without the set S of them.
LEMMA LengthOfTheRest ==
  ASSUME NEW c \in Nat, NEW S, S \subseteq 0 .. (c - 1)
  PROVE  /\ IsFiniteSet(S) /\ Cardinality(S) \in Nat
         /\ Cardinality((0 .. (c - 1)) \ S) = c - Cardinality(S)
<1>1. c - 1 \in Int /\ 0 \in Int
  OBVIOUS
<1>2. IsFiniteSet(0 .. (c - 1))
  BY <1>1, FS_Interval
<1>3. Cardinality(0 .. (c - 1)) = IF 0 > c - 1 THEN 0 ELSE (c - 1) - 0 + 1
  BY <1>1, FS_Interval
<1>4. Cardinality(0 .. (c - 1)) = c
  BY <1>3
<1>5. IsFiniteSet(S)
  BY <1>2, FS_Subset
<1>6. Cardinality(S) \in Nat
  BY <1>5, FS_CardinalityType
<1>7. (0 .. (c - 1)) \cap S = S
  OBVIOUS
<1>8. Cardinality((0 .. (c - 1)) \ S) = Cardinality(0 .. (c - 1)) - Cardinality((0 .. (c - 1)) \cap S)
  BY <1>2, FS_Difference
<1> QED
  BY <1>4, <1>5, <1>6, <1>7, <1>8

-----------------------------------------------------------------------------
(* The theorems about what is kept.                                        *)

\* What the parser has listed is, in every reachable state of the hooks, what
\* the heap infos of the whole stream ask to strip from the part of the buffer
\* behind it; what the write loop has written is the rest; and the sum of the
\* strips, off which the record's length is corrected, counts them.
THEOREM Kept == Spec => []KeptInv
<1>1. IInv /\ KeptInv /\ [Next]_vars => KeptInv'
  BY KeptStep
<1> QED
  BY <1>1, InitKept, Invariant, PTL DEF Spec

\* When a write to the hprof file returns, the file has got the bytes of the
\* buffer that are kept and no other, whatever sub-records the runtime writes,
\* however it spreads a heap over its buffers and however write() splits them.
THEOREM KeptBytesWritten == Spec => []OutputIsTheKeptBytes
<1>1. KeptInv => OutputIsTheKeptBytes
  BY DEF KeptInv, StripInv, WrittenInv, Writing, OutputIsTheKeptBytes
<1> QED
  BY <1>1, Kept, PTL

\* Whatever is opened and closed in what order, a write to a file that is not
\* the hprof reaches it whole, unless it is a heap-dump record and its descriptor
\* is one the hprof file had and gave up.
THEOREM OthersUntouched == Spec => []OthersIntact
<1>1. IInv /\ KeptInv => OthersIntact
  <2> SUFFICES ASSUME IInv, KeptInv, phase = "return", IsForeign(path_of[fd]),
                      ~(stale /\ fd = hprof_fd_ /\ buf.tag = "heap_dump")
               PROVE  Written = 0 .. buf.count - 1
    BY DEF OthersIntact
  <2>1. CASE fd # hprof_fd_
    <3>1. out = << <<0, buf.count>> >>
      BY <2>1 DEF IInv, PassInv
    <3>2. 1 .. Len(out) = {1} /\ out[1][1] = 0 /\ out[1][2] = buf.count
      BY <3>1
    <3>3. {out[k][1] .. (out[k][2] - 1) : k \in 1 .. Len(out)} = {0 .. buf.count - 1}
      BY <3>2
    <3> QED
      BY <3>3 DEF Written
  <2>2. CASE fd = hprof_fd_
    <3>1. hprof_fd_ # NoFd
      BY <2>2 DEF IInv, CallInv
    <3>2. stale /\ buf.tag # "heap_dump"
      BY <2>2, <3>1, PathsAssumption DEF IInv, NameInv, IsHprof, IsForeign
    <3>3. Stripped(buf, stream_heap) = {}
      BY <3>2 DEF Stripped
    <3> QED
      BY <2>2, <3>3 DEF KeptInv, StripInv, WrittenInv, Writing, HookReturns
  <2> QED
    BY <2>1, <2>2
<1> QED
  BY <1>1, Invariant, Kept, PTL

\* The length HookWriteInternal puts into the record's header is the length its
\* body will have once the values of the application arrays are back in it.
THEOREM LengthOfRefilledBody == Spec => []LengthMatchesRefilledBody
<1>1. IInv /\ KeptInv => LengthMatchesRefilledBody
  <2> SUFFICES ASSUME IInv, KeptInv, HookReturns, buf.tag = "heap_dump"
               PROVE  record_length = Cardinality(Written) - RecordHeader
                                        + Cardinality(ToFillIn(buf, stream_heap))
    BY DEF LengthMatchesRefilledBody
  <2>1. IsBuffer(buf) /\ stream_heap \in BOOLEAN /\ strip_bytes_sum_ \in Nat
    BY DEF IInv, TypeOK
  <2>2. buf.count \in Nat /\ RecordHeader = 9
    BY <2>1, BufferShape
  <2>3. /\ Stripped(buf, stream_heap) \subseteq RecordHeader .. (buf.count - 1)
        /\ ToFillIn(buf, stream_heap) \subseteq Stripped(buf, stream_heap)
    BY <2>1, StrippedInBody
  <2>4. Stripped(buf, stream_heap) \subseteq 0 .. (buf.count - 1)
    BY <2>2, <2>3
  <2>5. Written = (0 .. buf.count - 1) \ Stripped(buf, stream_heap)
    BY DEF KeptInv, StripInv, WrittenInv, Writing
  <2>6. /\ record_length = buf.count - RecordHeader - strip_bytes_sum_
        /\ Cardinality(Stripped(buf, stream_heap))
             = strip_bytes_sum_ + Cardinality(ToFillIn(buf, stream_heap))
    BY DEF KeptInv, LengthInv, Writing
  <2>7. /\ IsFiniteSet(Stripped(buf, stream_heap))
        /\ Cardinality(Stripped(buf, stream_heap)) \in Nat
        /\ Cardinality(Written) = buf.count - Cardinality(Stripped(buf, stream_heap))
    <3> DEFINE c == buf.count
               S == Stripped(buf, stream_heap)
    <3>1. c \in Nat /\ S \subseteq 0 .. (c - 1) /\ Written = (0 .. (c - 1)) \ S
      BY <2>2, <2>4, <2>5
    <3> HIDE DEF c, S
    <3>2. /\ IsFiniteSet(S) /\ Cardinality(S) \in Nat
          /\ Cardinality((0 .. (c - 1)) \ S) = c - Cardinality(S)
      BY <3>1, LengthOfTheRest
    <3>3. IsFiniteSet(S) /\ Cardinality(S) \in Nat /\ Cardinality(Written) = c - Cardinality(S)
      BY <3>1, <3>2
    <3> QED
      BY <3>3 DEF c, S
  <2>8. Cardinality(ToFillIn(buf, stream_heap)) \in Nat
    BY <2>3, <2>7, FS_Subset, FS_CardinalityType
  <2> QED
    BY <2>1, <2>2, <2>6, <2>7, <2>8
<1> QED
  BY <1>1, Invariant, Kept, PTL
=============================================================================
