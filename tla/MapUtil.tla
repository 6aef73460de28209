-------------------------------- MODULE MapUtil --------------------------------
(***************************************************************************)
(* Where a loaded library lies: MapUtil, over the memory map of the        *)
(* process (Android 5) or the loader's own list (later).  A path is a      *)
(* sequence of pieces of text; `loaded` is the loader's list, in order of  *)
(* loading, of libraries with the base they were loaded at.                *)
(***************************************************************************)
EXTENDS Integers, Sequences, FiniteSetsExt, SequencesExt

CONSTANT PageSize

NotFound == [path |-> <<>>, base |-> 0]

PageStart(a) == a - (a % PageSize)

\* strstr: the first place of one text in another, 0 if there is none.
StrStr(text, sub) ==
    LET places == {i \in 1..(Len(text) - Len(sub) + 1) : SubSeq(text, i, i + Len(sub) - 1) = sub}
    IN IF places = {} THEN 0 ELSE Min(places)

EndsWith(target, suffix) ==
    StrStr(target, suffix) # 0 /\ StrStr(target, suffix) = Len(target) - Len(suffix) + 1

-----------------------------------------------------------------------------
(* The memory map: a line for each segment the loader has mapped, by page. *)

Line(l, seg) ==
    [path |-> l.path, start |-> l.base + PageStart(seg.vaddr),
     offset |-> PageStart(seg.offset), exec |-> seg.exec, segs |-> l.segs]

Lines(loaded) == UNION {{Line(l, seg) : seg \in ToSet(l.segs)} : l \in ToSet(loaded)}

Lowest(lines) == CHOOSE line \in lines : \A other \in lines : line.start <= other.start

\* The line that is read right after another, in order of address.
Follows(lines, line, prev) ==
    /\ prev.start < line.start
    /\ \A other \in lines : other.start <= prev.start \/ line.start <= other.start

\* As link editors lay a file out: segments on pages of their own, in order, one of them
\* executable, which holds the headers or comes right after the one that does.
IsLaidOut(segs) ==
    /\ segs \in Seq([vaddr : Nat, offset : Nat, exec : BOOLEAN])
    /\ \A i, j \in DOMAIN segs : i < j => PageStart(segs[i].vaddr) < PageStart(segs[j].vaddr)
    /\ \E x \in DOMAIN segs :
         /\ \A j \in DOMAIN segs : segs[j].exec <=> j = x
         /\ \/ PageStart(segs[x].offset) = 0
            \/ x > 1 /\ PageStart(segs[x - 1].offset) = 0

\* The p_vaddr of the first executable segment, from the program headers, which the
\* line of offset 0 holds.
ReadLoadBias(line) == line.segs[Min({j \in DOMAIN line.segs : line.segs[j].exec})].vaddr

\* Mutant: only libraries whose code holds the headers.
HitHeaderOnly(lines, line, name) ==
    line.exec /\ EndsWith(line.path, name) /\ line.offset = 0

\* An executable line of that name which holds the headers itself, or comes right
\* after the readable line that does.
Hit(lines, line, name) ==
    /\ line.exec /\ EndsWith(line.path, name)
    /\ \/ line.offset = 0
       \/ \E prev \in lines :
            /\ Follows(lines, line, prev)
            /\ EndsWith(prev.path, name) /\ prev.offset = 0 /\ ~prev.exec

GetLoadInfoByMaps(loaded, name) ==
    LET lines == Lines(loaded)
        hits  == {line \in lines : Hit(lines, line, name)}
    IN IF hits = {} THEN NotFound
       ELSE [path |-> Lowest(hits).path,
             base |-> Lowest(hits).start - ReadLoadBias(Lowest(hits))]

GetLoadInfoByDl(loaded, name) ==
    LET hits == {i \in DOMAIN loaded : EndsWith(loaded[i].path, name)}
    IN IF hits = {} THEN NotFound
       ELSE [path |-> loaded[Min(hits)].path, base |-> loaded[Min(hits)].base]

L_MR1 == 22

GetLoadInfo(loaded, name, api) ==
    IF api > L_MR1 THEN GetLoadInfoByDl(loaded, name) ELSE GetLoadInfoByMaps(loaded, name)
=============================================================================
