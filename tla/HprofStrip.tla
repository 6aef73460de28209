------------------------------ MODULE HprofStrip ------------------------------
(***************************************************************************)
(* The strip hooks of libhprof-strip.so (hprof_strip.cpp).  While the      *)
(* forked child dumps the heap, the runtime's open() and write() go        *)
(* through HookOpenInternal and HookWriteInternal: the first remembers the *)
(* descriptor of the hprof file, the second parses every heap-dump record  *)
(* written to it, lists the byte ranges to leave out, corrects the record  *)
(* length in place and writes what is left.  close() is not hooked: the    *)
(* hooks go on taking a descriptor for the hprof file after it is closed,  *)
(* and whatever file the system gives it to next.                          *)
(*                                                                         *)
(* A written buffer is the record header followed by sub-records: `sub`    *)
(* maps the offset at which a sub-record starts to the sub-record, `nth`   *)
(* numbers the offsets.  A byte is its offset in the buffer, and the file  *)
(* is the sequence of half-open ranges <<from, to>> that reached it.       *)
(* ProcessHeap's tail recursion is a loop with one action per case.        *)
(***************************************************************************)
EXTENDS HprofFormat, Sequences, FiniteSets

CONSTANTS Fds,            \* descriptors open() returns
          Paths,          \* paths the process opens
          Names,          \* values SetHprofName is called with
          Strstr,         \* the pairs <<path, name>> with name a substring of path
          Buffers,        \* what the runtime passes to write()
          StripCapacity,  \* pairs in strip_index_list_pair_
          ShortWrites,    \* byte counts a partial write() may return
          DiskMayFail,    \* whether write() may start to fail for good
          MaxWrites       \* bound on the calls of HookWriteInternal

NoName == "no name"
NoPath == "no path"
NoFd   == -1

Starts(b) == DOMAIN b.sub

\* The runtime writes whole records: sub-records follow one another from the
\* end of the header to the end of the buffer, and a segment never holds more
\* of them than the strip list has room for.
IsBuffer(b) ==
    /\ b.tag \in {"heap_dump", "other"}
    /\ b.count \in Nat
    /\ b.tag = "heap_dump" =>
         /\ Starts(b) \subseteq RecordHeader .. (b.count - 1)
         /\ b.sub \in [Starts(b) -> SubRecord]
         /\ b.nth \in [Starts(b) \cup {b.count} -> 1 .. (StripCapacity + 1)]
         /\ RecordHeader \in Starts(b) \cup {b.count}
         /\ \A o \in Starts(b) :
              LET next == o + ArtSize(b.sub[o])
              IN /\ next \in Starts(b) \cup {b.count} /\ b.nth[next] = b.nth[o] + 1
                 /\ \A p \in Starts(b) : o < p => next <= p

ASSUME FdsAssumption == Fds \subseteq Nat
ASSUME PathsAssumption ==
    NoPath \notin Paths /\ NoName \notin Names /\ Strstr \subseteq Paths \X Names
ASSUME BuffersAssumption == \A b \in Buffers : IsBuffer(b)
ASSUME BoundsAssumption == StripCapacity \in Nat /\ MaxWrites \in Nat
ASSUME WritesAssumption == ShortWrites \subseteq Nat \ {0} /\ DiskMayFail \in BOOLEAN

VARIABLES
    hprof_name_,
    hprof_fd_,
    path_of,                  \* the file behind each open descriptor
    stale,                    \* history: has hprof_fd_ been closed since it was remembered?
    is_current_system_heap_,
    hook_write_serial_num_,
    phase,                    \* where HookWriteInternal stands
    fd, buf,                  \* its arguments
    first_index,              \* argument of the current ProcessHeap
    strip_list,               \* strip_index_list_pair_ up to strip_index_
    strip_bytes_sum_,
    record_length,            \* the length field of the record in the buffer
    i, start_index, left,     \* the write loop, and FullyWrite's `left`
    out,                      \* the ranges of buf this call has written
    disk,                     \* whether write() still succeeds
    stream_heap               \* history: was the last heap info before buf a system heap?

name_vars == <<hprof_name_, hprof_fd_, path_of, stale>>
args      == <<fd, buf>>
strips    == <<strip_list, strip_bytes_sum_>>
writing   == <<i, start_index, left, out>>
vars == <<name_vars, is_current_system_heap_, hook_write_serial_num_, phase, args,
          first_index, strips, record_length, writing, disk, stream_heap>>

NoBuffer == [tag |-> "other", count |-> 0]

Init ==
    /\ hprof_name_ = NoName
    /\ hprof_fd_ = NoFd
    /\ path_of = [f \in Fds |-> NoPath]
    /\ stale = FALSE
    /\ is_current_system_heap_ = FALSE
    /\ hook_write_serial_num_ = 0
    /\ phase = "idle"
    /\ fd = NoFd /\ buf = NoBuffer
    /\ first_index = 0
    /\ strip_list = <<>> /\ strip_bytes_sum_ = 0
    /\ record_length = 0
    /\ i = 0 /\ start_index = 0 /\ left = 0 /\ out = <<>>
    /\ disk = "ok"
    /\ stream_heap = FALSE

-----------------------------------------------------------------------------
(* The descriptor to strip.                                                *)

\* The dumper names the file before it forks; nothing has been opened yet.
SetHprofName(name) ==
    /\ phase = "idle" /\ hprof_fd_ = NoFd
    /\ hprof_name_' = name
    /\ UNCHANGED <<hprof_fd_, path_of, stale, is_current_system_heap_, hook_write_serial_num_,
                   phase, args, first_index, strips, record_length, writing, disk,
                   stream_heap>>

\* Mutant: any file opened once the name is set.
IsHprofAny(path) == hprof_name_ # NoName

IsHprof(path) == hprof_name_ # NoName /\ <<path, hprof_name_>> \in Strstr

\* What open() has returned is remembered as the hprof file's, be it -1.
Remember(path, opened) ==
    /\ hprof_fd_' = IF IsHprof(path) THEN opened ELSE hprof_fd_
    /\ stale' = (stale /\ ~IsHprof(path))

OpenKeeps == <<hprof_name_, is_current_system_heap_, hook_write_serial_num_, phase, args,
               first_index, strips, record_length, writing, disk, stream_heap>>

\* open() returns the lowest free descriptor.
HookOpenInternal(path, f) ==
    /\ phase = "idle" /\ path_of[f] = NoPath
    /\ \A g \in Fds : g < f => path_of[g] # NoPath
    /\ path_of' = [path_of EXCEPT ![f] = path]
    /\ Remember(path, f)
    /\ UNCHANGED OpenKeeps

\* open() fails.
HookOpenFails(path) ==
    /\ phase = "idle"
    /\ Remember(path, NoFd)
    /\ UNCHANGED <<path_of, OpenKeeps>>

\* The runtime closes a file; the hooks do not hear of it.
Close(f) ==
    /\ phase = "idle" /\ path_of[f] # NoPath
    /\ path_of' = [path_of EXCEPT ![f] = NoPath]
    /\ stale' = (stale \/ f = hprof_fd_)
    /\ UNCHANGED <<hprof_fd_, OpenKeeps>>

-----------------------------------------------------------------------------
(* HookWriteInternal, up to ProcessHeap.                                   *)

\* fd != hprof_fd_: the write goes through as it is.  (If it comes back short,
\* the runtime writes the rest.)
PassThrough(f, b) ==
    /\ phase = "idle" /\ path_of[f] # NoPath /\ f # hprof_fd_
    /\ phase' = "return"
    /\ fd' = f /\ buf' = b
    /\ out' = << <<0, b.count>> >>
    /\ UNCHANGED <<name_vars, is_current_system_heap_, hook_write_serial_num_, first_index,
                   strips, record_length, i, start_index, left, disk, stream_heap>>

\* Mutants: the list, or the sum, survives into the next write.
resetKeepsList == strip_bytes_sum_' = 0 /\ UNCHANGED strip_list

resetKeepsSum == strip_list' = <<>> /\ UNCHANGED strip_bytes_sum_

\* reset(): the strip list and its sum; the heap flag is kept on purpose, a
\* heap's sub-records span many writes.
reset == strip_list' = <<>> /\ strip_bytes_sum_' = 0

HookWriteInternal(f, b) ==
    /\ phase = "idle" /\ path_of[f] # NoPath /\ f = hprof_fd_
    /\ hook_write_serial_num_ < MaxWrites
    /\ reset
    /\ fd' = f /\ buf' = b
    /\ phase' = IF b.tag = "heap_dump" THEN "parse" ELSE "scan"
    /\ first_index' = RecordHeader
    /\ record_length' = b.count - RecordHeader
    /\ i' = 0 /\ start_index' = 0 /\ left' = 0 /\ out' = <<>>
    /\ UNCHANGED <<name_vars, is_current_system_heap_, hook_write_serial_num_, disk,
                   stream_heap>>

-----------------------------------------------------------------------------
(* ProcessHeap: one action per kind of sub-record.                         *)

At(o, kinds) ==
    /\ phase = "parse"
    /\ o < buf.count /\ o \in Starts(buf)
    /\ buf.sub[o].kind \in kinds

ParseKeeps == <<name_vars, hook_write_serial_num_, phase, args, record_length, writing,
                disk, stream_heap>>

\* Mutant: an empty pair before each pair.
StripTwice(from, to) == strip_list' = strip_list \o << <<from, from>>, <<from, to>> >>

Strip(from, to) == strip_list' = Append(strip_list, <<from, to>>)

RootBytes(kind) ==
    CASE kind = "root"          -> HEAP_TAG_BYTE_SIZE + OBJECT_ID_BYTE_SIZE
      [] kind = "jni_global"    -> HEAP_TAG_BYTE_SIZE + OBJECT_ID_BYTE_SIZE
                                     + JNI_GLOBAL_REF_ID_BYTE_SIZE
      [] kind = "native_stack"  -> HEAP_TAG_BYTE_SIZE + OBJECT_ID_BYTE_SIZE
                                     + THREAD_SERIAL_BYTE_SIZE
      [] OTHER                  -> HEAP_TAG_BYTE_SIZE + OBJECT_ID_BYTE_SIZE
                                     + THREAD_SERIAL_BYTE_SIZE + U4

SkipRoot ==
    /\ At(first_index, RootKinds)
    /\ first_index' = first_index + RootBytes(buf.sub[first_index].kind)
    /\ UNCHANGED <<is_current_system_heap_, strips, ParseKeeps>>

ClassEnd(o, r) ==
    LET constant_pool == o + HEAP_TAG_BYTE_SIZE + CLASS_ID_BYTE_SIZE
                           + STACK_TRACE_SERIAL_NUMBER_BYTE_SIZE + CLASS_ID_BYTE_SIZE
                           + CLASS_LOADER_ID_BYTE_SIZE + 4 * OBJECT_ID_BYTE_SIZE
                           + INSTANCE_SIZE_BYTE_SIZE
        fields == constant_pool + CONSTANT_POOL_LENGTH_BYTE_SIZE
                    + STATIC_FIELD_LENGTH_BYTE_SIZE + r.table
    IN fields + INSTANCE_FIELD_LENGTH_BYTE_SIZE
         + (BASIC_TYPE_BYTE_SIZE + STRING_ID_BYTE_SIZE) * r.n

SkipClass ==
    /\ At(first_index, {"class"})
    /\ first_index' = ClassEnd(first_index, buf.sub[first_index])
    /\ UNCHANGED <<is_current_system_heap_, strips, ParseKeeps>>

InstanceEnd(o, r) ==
    o + HEAP_TAG_BYTE_SIZE + OBJECT_ID_BYTE_SIZE + STACK_TRACE_SERIAL_NUMBER_BYTE_SIZE
      + CLASS_ID_BYTE_SIZE + U4 + r.n

\* Mutant: the class id forgotten.
ObjectArrayEndShort(o, r) ==
    o + HEAP_TAG_BYTE_SIZE + OBJECT_ID_BYTE_SIZE + STACK_TRACE_SERIAL_NUMBER_BYTE_SIZE
      + U4 + U4 * r.n

ObjectArrayEnd(o, r) ==
    o + HEAP_TAG_BYTE_SIZE + OBJECT_ID_BYTE_SIZE + STACK_TRACE_SERIAL_NUMBER_BYTE_SIZE
      + U4 + CLASS_ID_BYTE_SIZE + U4 * r.n

\* Instances and object arrays go with the system heaps that hold them.
StripInSystemHeap(end) ==
    /\ IF is_current_system_heap_
       THEN /\ Strip(first_index, end)
            /\ strip_bytes_sum_' = strip_bytes_sum_ + (end - first_index)
       ELSE UNCHANGED strips
    /\ first_index' = end
    /\ UNCHANGED <<is_current_system_heap_, ParseKeeps>>

InstanceDump ==
    /\ At(first_index, {"instance"})
    /\ StripInSystemHeap(InstanceEnd(first_index, buf.sub[first_index]))

ObjectArrayDump ==
    /\ At(first_index, {"object_array"})
    /\ StripInSystemHeap(ObjectArrayEnd(first_index, buf.sub[first_index]))

PrimitiveArrayData(o) ==
    o + HEAP_TAG_BYTE_SIZE + OBJECT_ID_BYTE_SIZE + STACK_TRACE_SERIAL_NUMBER_BYTE_SIZE
      + U4 + BASIC_TYPE_BYTE_SIZE

PrimitiveArrayEnd(o, r) == PrimitiveArrayData(o) + GetByteSizeFromType(r.type) * r.n

\* The values of a primitive array always go.  An application array keeps its
\* header, from which the values are filled in again later, and so the record
\* length still counts them.
PrimitiveArrayDump ==
    /\ At(first_index, {"primitive_array"})
    /\ LET end == PrimitiveArrayEnd(first_index, buf.sub[first_index])
       IN /\ IF is_current_system_heap_
             THEN /\ Strip(first_index, end)
                  /\ strip_bytes_sum_' = strip_bytes_sum_ + (end - first_index)
             ELSE /\ Strip(PrimitiveArrayData(first_index), end)
                  /\ UNCHANGED strip_bytes_sum_
          /\ first_index' = end
    /\ UNCHANGED <<is_current_system_heap_, ParseKeeps>>

HeapDumpInfo ==
    /\ At(first_index, {"heap_info"})
    /\ is_current_system_heap_' = buf.sub[first_index].sys
    /\ LET end == first_index + HEAP_TAG_BYTE_SIZE + HEAP_TYPE_BYTE_SIZE
                    + STRING_ID_BYTE_SIZE
       IN /\ IF is_current_system_heap_'
             THEN /\ Strip(first_index, end)
                  /\ strip_bytes_sum_' = strip_bytes_sum_ + (end - first_index)
             ELSE UNCHANGED strips
          /\ first_index' = end
    /\ UNCHANGED ParseKeeps

\* Tags the runtime no longer writes.
SkipObsolete ==
    /\ At(first_index, {"obsolete"})
    /\ first_index' = first_index + HEAP_TAG_BYTE_SIZE
    /\ UNCHANGED <<is_current_system_heap_, strips, ParseKeeps>>

\* first_index >= max_len, or the default case: back in HookWriteInternal,
\* which takes the stripped bytes off the record's length.
PatchLength ==
    /\ phase = "parse"
    /\ \/ first_index >= buf.count
       \/ At(first_index, {"unknown"})
    /\ record_length' = record_length - strip_bytes_sum_
    /\ phase' = "scan"
    /\ UNCHANGED <<name_vars, is_current_system_heap_, hook_write_serial_num_, args,
                   first_index, strips, writing, disk, stream_heap>>

-----------------------------------------------------------------------------
(* HookWriteInternal: writing what is left between the strips.             *)

\* Where the piece that starts at start_index ends, and where the next begins.
PieceEnd == IF i < Len(strip_list) THEN strip_list[i + 1][1] ELSE buf.count

\* Mutant: on from the start of the strip instead of its end.
NextStartUnskipped == IF i < Len(strip_list) THEN strip_list[i + 1][1] ELSE buf.count

NextStart == IF i < Len(strip_list) THEN strip_list[i + 1][2] ELSE buf.count

WriteKeeps == <<name_vars, is_current_system_heap_, hook_write_serial_num_, args,
                first_index, strips, record_length, disk, stream_heap>>

\* The piece before the next strip is done: go round the loop, or return.
NextPiece ==
    /\ start_index' = NextStart
    /\ i' = i + 1
    /\ phase' = IF i < Len(strip_list) THEN "scan" ELSE "return"

\* Mutant: an empty piece does not go round the loop.
EmptyPieceStays ==
    /\ phase = "scan" /\ PieceEnd - start_index = 0
    /\ UNCHANGED vars

\* write_len is unsigned: a negative one would not be empty (see StripsOrdered).
EmptyPiece ==
    /\ phase = "scan" /\ PieceEnd - start_index = 0
    /\ NextPiece
    /\ UNCHANGED <<left, out, WriteKeeps>>

StartPiece ==
    /\ phase = "scan" /\ PieceEnd - start_index # 0
    /\ left' = PieceEnd - start_index
    /\ phase' = "write"
    /\ UNCHANGED <<i, start_index, out, WriteKeeps>>

\* Mutant: a short write starts the piece over.
PositionRestarts == start_index

\* FullyWrite: the next byte to hand to write().
Position == PieceEnd - left

\* FullyWrite: write() takes some of the bytes and the loop takes up the rest.
FullyWrite ==
    /\ phase = "write" /\ disk = "ok"
    /\ \E written \in {left} \cup {w \in ShortWrites : w < left} :
         /\ out' = Append(out, <<Position, Position + written>>)
         /\ left' = left - written
         /\ IF written = left
            THEN NextPiece
            ELSE UNCHANGED <<phase, i, start_index>>
    /\ UNCHANGED WriteKeeps

\* FullyWrite ignores -1 and tries again: on a full disk it never leaves the loop.
FullyWriteFails ==
    /\ phase = "write" /\ disk = "failed"
    /\ UNCHANGED vars

\* A disk fails as it is written to.
DiskFails ==
    /\ DiskMayFail /\ disk = "ok" /\ phase = "write"
    /\ disk' = "failed"
    /\ UNCHANGED <<name_vars, is_current_system_heap_, hook_write_serial_num_, phase, args,
                   first_index, strips, record_length, writing, stream_heap>>

\* Return to the runtime, which drops the buffer.  (stream_heap is history: the
\* heap the sub-records of this buffer leave the stream in.)
InfosUpTo(b, o) == {p \in Starts(b) : p <= o /\ b.sub[p].kind = "heap_info"}

\* An unknown tag hides the rest of its buffer from the parser.
Reached(b, o) == \A p \in Starts(b) : p <= o => b.sub[p].kind # "unknown"

SystemHeapAt(b, heap, o) ==
    LET infos == {p \in InfosUpTo(b, o) : Reached(b, p)}
    IN IF infos = {} THEN heap
       ELSE \E p \in infos : (\A q \in infos : q <= p) /\ b.sub[p].sys

\* Only the writes to the hprof file are counted.
\* Mutant: all of them.
CountedAlways == 1

Counted == IF fd = hprof_fd_ THEN 1 ELSE 0

Return ==
    /\ phase = "return"
    /\ phase' = "idle"
    /\ hook_write_serial_num_' = hook_write_serial_num_ + Counted
    /\ stream_heap' = IF fd = hprof_fd_ /\ buf.tag = "heap_dump"
                      THEN SystemHeapAt(buf, stream_heap, buf.count) ELSE stream_heap
    /\ fd' = NoFd /\ buf' = NoBuffer
    /\ first_index' = 0 /\ record_length' = 0
    /\ i' = 0 /\ start_index' = 0 /\ left' = 0 /\ out' = <<>>
    /\ UNCHANGED <<name_vars, is_current_system_heap_, strips, disk>>

\* The dump ends after MaxWrites writes to the hprof file.
DumpOver ==
    /\ phase = "idle" /\ hook_write_serial_num_ = MaxWrites
    /\ UNCHANGED vars

ProcessHeap ==
    \/ SkipRoot \/ SkipClass \/ InstanceDump \/ ObjectArrayDump
    \/ PrimitiveArrayDump \/ HeapDumpInfo \/ SkipObsolete

WriteLoop == EmptyPiece \/ StartPiece \/ FullyWrite \/ FullyWriteFails

\* What the thread inside write() does.
WriterStep == ProcessHeap \/ PatchLength \/ WriteLoop \/ Return

Next ==
    \/ \E name \in Names : SetHprofName(name)
    \/ \E path \in Paths, f \in Fds : HookOpenInternal(path, f)
    \/ \E path \in Paths : HookOpenFails(path)
    \/ \E f \in Fds : Close(f)
    \/ \E f \in Fds, b \in Buffers : PassThrough(f, b) \/ HookWriteInternal(f, b)
    \/ WriterStep
    \/ DiskFails \/ DumpOver

Spec == Init /\ [][Next]_vars

\* The writing thread is the only one of the forked child: it is scheduled.
FairSpec == Spec /\ WF_vars(WriterStep)

-----------------------------------------------------------------------------
(* Properties.                                                             *)

TypeOK ==
    /\ hprof_name_ \in Names \cup {NoName}
    /\ hprof_fd_ \in Fds \cup {NoFd} /\ fd \in Fds \cup {NoFd}
    /\ path_of \in [Fds -> Paths \cup {NoPath}] /\ stale \in BOOLEAN
    /\ is_current_system_heap_ \in BOOLEAN /\ stream_heap \in BOOLEAN
    /\ hook_write_serial_num_ \in 0 .. MaxWrites
    /\ phase \in {"idle", "parse", "scan", "write", "return"}
    /\ IsBuffer(buf)
    /\ first_index \in Nat
    /\ strip_list \in Seq(Nat \X Nat)
    /\ strip_bytes_sum_ \in Nat
    /\ record_length \in Int
    /\ i \in Nat /\ start_index \in Nat /\ left \in Nat
    /\ out \in Seq(Nat \X Nat)
    /\ disk \in {"ok", "failed"}

\* The parser never loses the sub-record boundaries: wherever it reads a tag
\* byte, a sub-record starts (the sizes ProcessHeap adds up are the runtime's).
ParserInSync ==
    phase = "parse" => first_index \in Starts(buf) \cup {buf.count}

\* The strips are disjoint, in the order of the file and inside the buffer, so
\* that no piece of HookWriteInternal's loop has a negative length (its check
\* `write_len < 0` can never be true: write_len is a size_t).
Ordered(list, count) ==
    /\ \A k \in 1 .. Len(list) : RecordHeader <= list[k][1] /\ list[k][1] <= list[k][2]
                                                           /\ list[k][2] <= count
    /\ \A k \in 1 .. Len(list) - 1 : list[k][2] <= list[k + 1][1]

StripsOrdered == phase \in {"parse", "scan", "write"} => Ordered(strip_list, buf.count)

\* strip_index_list_pair_ has a fixed length that ProcessHeap does not check.
NoStripOverflow == Len(strip_list) <= StripCapacity

\* The bytes of a buffer that have to go, given the heap the stream is in.
StripOf(b, heap, o) ==
    LET r == b.sub[o]
        system == SystemHeapAt(b, heap, o)
        end == o + ArtSize(r)
    IN IF ~Reached(b, o) THEN {}
       ELSE CASE r.kind \in {"instance", "object_array", "heap_info"} /\ system -> o .. end - 1
              [] r.kind = "primitive_array" ->
                   (IF system THEN o ELSE end - GetByteSizeFromType(r.type) * r.n) .. end - 1
              [] OTHER -> {}

Stripped(b, heap) ==
    IF b.tag = "heap_dump" THEN UNION {StripOf(b, heap, o) : o \in Starts(b)} ELSE {}

Written == UNION {out[k][1] .. (out[k][2] - 1) : k \in 1 .. Len(out)}

HookReturns == phase = "return" /\ fd = hprof_fd_

\* When write() returns, the file holds exactly the bytes of the buffer that are
\* kept, judged from the heap infos of the whole stream and not from the
\* parser's state: nothing is lost, nothing stripped slips through.
OutputIsTheKeptBytes ==
    HookReturns => Written = (0 .. buf.count - 1) \ Stripped(buf, stream_heap)

\* The bytes of a call reach the file in the order of the buffer and once each,
\* however write() splits them.
OutputInOrder ==
    /\ \A k \in 1 .. Len(out) : out[k][1] <= out[k][2]
    /\ \A k \in 1 .. Len(out) - 1 : out[k][2] <= out[k + 1][1]

\* The array values a reader of the file has to fill in again.
ToFillIn(b, heap) ==
    UNION {StripOf(b, heap, o) : o \in {p \in Starts(b) :
              b.sub[p].kind = "primitive_array" /\ ~SystemHeapAt(b, heap, p)}}

\* The corrected length is that of the record after the values of the
\* application arrays have been filled in again: what the header says and what
\* the body holds never disagree by another byte.
LengthMatchesRefilledBody ==
    HookReturns /\ buf.tag = "heap_dump" =>
        record_length = Cardinality(Written) - RecordHeader
                          + Cardinality(ToFillIn(buf, stream_heap))

IsForeign(path) == hprof_name_ = NoName \/ <<path, hprof_name_>> \notin Strstr

\* A write to a file that is not the hprof reaches it whole, although the hooks
\* tell files by descriptors, which are closed and given out again: the one
\* exception is a heap-dump record on the descriptor the hprof had before.
OthersIntact ==
    phase = "return" /\ IsForeign(path_of[fd]) =>
        \/ Written = 0 .. buf.count - 1
        \/ stale /\ fd = hprof_fd_ /\ buf.tag = "heap_dump"

\* A write to the hprof file returns, unless the disk fails under it.
WriteReturns == (phase # "idle") ~> (phase = "idle" \/ disk = "failed")
=============================================================================
