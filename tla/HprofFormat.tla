----------------------------- MODULE HprofFormat -----------------------------
(***************************************************************************)
(* The binary hprof format the strip hooks work on: the widths of its      *)
(* fields, and the sub-records of a heap-dump record as Android's runtime  *)
(* lays them out.  A sub-record is abstracted to its kind and to the       *)
(* fields that decide where it ends and whether it is kept:                *)
(*   n      elements of an array, bytes of an instance, fields of a class  *)
(*   type   element type of a primitive array                              *)
(*   table  bytes of a class's constant-pool and static-field entries      *)
(*   sys    whether a heap-dump-info names the zygote or the image heap    *)
(***************************************************************************)
EXTENDS Integers

HEAP_TAG_BYTE_SIZE == 1
OBJECT_ID_BYTE_SIZE == 4
JNI_GLOBAL_REF_ID_BYTE_SIZE == 4
CLASS_ID_BYTE_SIZE == 4
CLASS_LOADER_ID_BYTE_SIZE == 4
INSTANCE_SIZE_BYTE_SIZE == 4
CONSTANT_POOL_LENGTH_BYTE_SIZE == 2
STATIC_FIELD_LENGTH_BYTE_SIZE == 2
INSTANCE_FIELD_LENGTH_BYTE_SIZE == 2
STACK_TRACE_SERIAL_NUMBER_BYTE_SIZE == 4
RECORD_TIME_BYTE_SIZE == 4
RECORD_LENGTH_BYTE_SIZE == 4
STRING_ID_BYTE_SIZE == 4
THREAD_SERIAL_BYTE_SIZE == 4
BASIC_TYPE_BYTE_SIZE == 1
HEAP_TYPE_BYTE_SIZE == 4
U4 == 4

\* Where the sub-records of a heap-dump record start in the written buffer.
RecordHeader == HEAP_TAG_BYTE_SIZE + RECORD_TIME_BYTE_SIZE + RECORD_LENGTH_BYTE_SIZE

BasicTypes == {"object", "boolean", "char", "float", "double",
               "byte", "short", "int", "long", "invalid"}

GetByteSizeFromType(t) ==
    CASE t \in {"boolean", "byte"}          -> 1
      [] t \in {"char", "short"}            -> 2
      [] t \in {"float", "int", "object"}   -> 4
      [] t \in {"long", "double"}           -> 8
      [] OTHER                              -> 0

RootKinds == {"root", "jni_global", "frame", "native_stack", "thread_object"}

Kinds == RootKinds \cup {"class", "instance", "object_array", "primitive_array",
                         "heap_info", "obsolete", "unknown"}

SubRecord == [kind : Kinds, n : Nat, type : BasicTypes, table : Nat, sys : BOOLEAN]

\* The size the runtime gives a sub-record: the sum of the fields it adds, in
\* the order the comments above each case list them.
ArtSize(r) ==
    CASE r.kind = "root"            -> 1 + 4
      [] r.kind = "jni_global"      -> 1 + 4 + 4
      [] r.kind = "frame"           -> 1 + 4 + 4 + 4
      [] r.kind = "native_stack"    -> 1 + 4 + 4
      [] r.kind = "thread_object"   -> 1 + 4 + 4 + 4
      [] r.kind = "class"           -> 1 + 8 * 4 + 4 + 2 + 2 + r.table + 2 + 5 * r.n
      [] r.kind = "instance"        -> 1 + 4 + 4 + 4 + 4 + r.n
      [] r.kind = "object_array"    -> 1 + 4 + 4 + 4 + 4 + 4 * r.n
      [] r.kind = "primitive_array" -> 1 + 4 + 4 + 4 + 1 + GetByteSizeFromType(r.type) * r.n
      [] r.kind = "heap_info"       -> 1 + 4 + 4
      [] OTHER                      -> 1
=============================================================================
