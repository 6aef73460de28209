------------------------------ MODULE ThreadInfo ------------------------------
(***************************************************************************)
(* The list of threads: ThreadInfo.getAllThreads().  It asks the runtime   *)
(* for its threads, then lists /proc/self/task, then reads the name of     *)
(* each task, while threads come and go; what is found is matched by name. *)
(* A name is a sequence of characters.                                     *)
(***************************************************************************)
EXTENDS Integers, Sequences, FiniteSetsExt, SequencesExt

CONSTANTS Threads,   \* numbers of all threads of a run, as the kernel gives them
          Jvm,       \* those the runtime knows
          NameOf,    \* the name each was given
          COMM_LEN   \* length of a name in the kernel (15 in the code)

Main == 1
MainName == <<"main">>

ASSUME ThreadsAssumption == Threads \subseteq Nat /\ Jvm \subseteq Threads
ASSUME MainAssumption == Main \in Jvm /\ NameOf[Main] = MainName
ASSUME NamesAssumption == COMM_LEN \in Nat /\ \A t \in Threads : NameOf[t] \in Seq(STRING)

VARIABLES
    running,     \* the threads there are
    born,        \* all there have been: a number is not given out again
    pc,          \* where the caller, which is none of them, stands
    jvmThreads,  \* the runtime's threads, in the order of its map
    left,        \* the places of those not yet taken out
    tasks,       \* the entries of /proc/self/task
    comms,       \* the names read so far
    allThreads   \* the list returned, as far as it has been gone through

others == <<running, born>>
lists  == <<jvmThreads, left, tasks, comms, allThreads>>
tvars  == <<others, pc, lists>>

TInit ==
    /\ running = {Main} /\ born = {Main}
    /\ pc = "snapshot"
    /\ jvmThreads = <<>> /\ left = {} /\ tasks = <<>> /\ comms = <<>> /\ allThreads = <<>>

-----------------------------------------------------------------------------
(* The other threads, and the names the kernel keeps for them.             *)

Start(t) ==
    /\ t \notin born
    /\ running' = running \cup {t} /\ born' = born \cup {t}
    /\ UNCHANGED <<pc, lists>>

End(t) ==
    /\ t \in running \ {Main}
    /\ running' = running \ {t}
    /\ UNCHANGED <<born, pc, lists>>

\* The main thread bears the name of the package; of a longer name the kernel has the
\* beginning or, if there is a dot in it and the runtime sets it, the end.
Package == <<"p", "k", "g">>

Comm(t) ==
    LET name == NameOf[t]
    IN CASE t = Main -> Package
         [] t # Main /\ Len(name) <= COMM_LEN -> name
         [] OTHER -> IF t \in Jvm /\ "." \in ToSet(name)
                       THEN SubSeq(name, Len(name) - COMM_LEN + 1, Len(name))
                       ELSE SubSeq(name, 1, COMM_LEN)

-----------------------------------------------------------------------------
(* getAllThreads().                                                        *)

NativeInfo(t, comm) ==
    [isNative |-> TRUE, jvmId |-> -1, nativeId |-> t, name |-> comm]

JvmInfo(t) ==
    [isNative |-> FALSE, jvmId |-> t, nativeId |-> -1, name |-> NameOf[t]]

GetJvmThreadsInfo ==
    /\ pc = "snapshot" /\ pc' = "list"
    /\ \E order \in SetToSeqs(running \cap Jvm) :
         jvmThreads' = [i \in DOMAIN order |-> JvmInfo(order[i])]
    /\ left' = DOMAIN jvmThreads'
    /\ UNCHANGED <<others, tasks, comms, allThreads>>

\* The kernel gives the entries in order of their numbers, each if it is there by then.
ListTask ==
    LET ahead == {t \in running : \A i \in DOMAIN tasks : tasks[i] < t}
    IN /\ pc = "list"
       /\ IF ahead = {} THEN pc' = "read" /\ UNCHANGED tasks
          ELSE tasks' = Append(tasks, Min(ahead)) /\ UNCHANGED pc
       /\ UNCHANGED <<others, jvmThreads, left, comms, allThreads>>

\* A thread that has ended since leaves a text that is no thread's name.
Failed == <<"failed to read">>

ReadComm ==
    /\ pc = "read" /\ Len(comms) < Len(tasks)
    /\ LET t == tasks[Len(comms) + 1]
       IN comms' = Append(comms, IF t \in running THEN Comm(t) ELSE Failed)
    /\ UNCHANGED <<others, pc, jvmThreads, left, tasks, allThreads>>

ContainsText(text, sub) ==
    \E i \in 1..(Len(text) - Len(sub) + 1) : SubSeq(text, i, i + Len(sub) - 1) = sub

\* Mutant: no allowance for a cut name.
SameNameOnly(jvmName, comm) == jvmName = comm

SameName(jvmName, comm) ==
    \/ jvmName = comm
    \/ Len(comm) = COMM_LEN /\ ContainsText(jvmName, comm)

\* No thread of the runtime bears the path of a file in /proc for a name.
ASSUME FailedAssumption == \A t \in Jvm : ~SameName(NameOf[t], Failed)

\* A match is taken out, so as not to be used again.  copy(): everything but isDaemon,
\* the missing nativeId included.
MatchTask ==
    LET i    == Len(allThreads) + 1
        hits == {k \in left : SameName(jvmThreads[k].name, comms[i])}
    IN /\ pc = "read" /\ Len(comms) = Len(tasks) /\ i <= Len(tasks)
       /\ IF hits = {}
          THEN allThreads' = Append(allThreads, NativeInfo(tasks[i], comms[i])) /\ UNCHANGED left
          ELSE /\ allThreads' = Append(allThreads, jvmThreads[Min(hits)])
               /\ left' = left \ {Min(hits)}
       /\ UNCHANGED <<others, pc, jvmThreads, tasks, comms>>

\* The runtime's main thread goes to the front, having met no task of its name; here
\* without the sorting by isNative.
AddMain ==
    LET mains == {k \in left : jvmThreads[k].name = MainName}
    IN /\ pc = "read" /\ Len(allThreads) = Len(tasks)
       /\ pc' = "done"
       /\ allThreads' = IF mains = {} THEN allThreads
                        ELSE <<jvmThreads[Min(mains)]>> \o allThreads
       /\ UNCHANGED <<others, jvmThreads, left, tasks, comms>>

GetAllThreads == GetJvmThreadsInfo \/ ListTask \/ ReadComm \/ MatchTask \/ AddMain

Done == pc = "done" /\ UNCHANGED tvars

TNext == GetAllThreads \/ (\E t \in Threads : Start(t) \/ End(t)) \/ Done

TSpec == TInit /\ [][TNext]_tvars

-----------------------------------------------------------------------------
(* Properties.                                                             *)

\* The entry of the i-th task.
Told(i) == allThreads[i + Len(allThreads) - Len(tasks)]

InSnapshot(t) == \E i \in DOMAIN jvmThreads : jvmThreads[i].jvmId = t

\* The name of task u passes for that of t, and u is not just another thread of t's
\* name that the runtime had told of.
Confusing(u, t) ==
    /\ u # t /\ SameName(NameOf[t], Comm(u))
    /\ ~(InSnapshot(u) /\ NameOf[u] = NameOf[t])

\* A task that was there from the first step until its name was read is told to be a
\* thread of the runtime if it is one, many of one name though there be and whichever
\* of them end meanwhile, unless a native thread, or one that started later, has a
\* name that passes for its own.  (The main thread's kernel name is the package's.)
RuntimeThreadsAreTold ==
    pc = "done" => \A i \in DOMAIN tasks :
        InSnapshot(tasks[i]) /\ tasks[i] # Main /\ comms[i] # Failed =>
            \/ ~Told(i).isNative
            \/ \E u \in ToSet(tasks) : Confusing(u, tasks[i])
=============================================================================
