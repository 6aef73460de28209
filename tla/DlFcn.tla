--------------------------------- MODULE DlFcn ---------------------------------
(***************************************************************************)
(* DlFcn: finding symbols of libraries that are already loaded, by way of  *)
(* the loader or, where Android forbids that, of the library's own file.   *)
(* Two clients run beside the loader: HprofDump::Initialize, which wants a *)
(* few symbols of libart.so, and a caller of the *_elf functions.  The app *)
(* loads and unloads libraries at any time; none of the handles pins one.  *)
(***************************************************************************)
EXTENDS Integers, Sequences, FiniteSetsExt, SequencesExt

CONSTANTS Devices,           \* what the app may run on: see Device
          LibNames,          \* names the client asks for
          Symbols,           \* symbols the client asks for
          Bases,             \* where a library may be loaded
          MaxLoads,          \* bound on the loads by the app
          PageSize, GnuHash, ElfHash, Bits

Elf == INSTANCE ElfReader
Map == INSTANCE MapUtil

Null == Elf!Null

L == 21
N == 24
N_MR1 == 25
Q == 29
R == 30
U == 34

LibArt == <<"libart.so">>

\* The symbols of each range of versions, two for seven from R on.
OldSymbols == {"SuspendVM", "ResumeVM"}
NewSymbols == {"ScopedSuspendAll", "mutator_lock_"}

ASSUME ConstantsAssumption ==
    /\ MaxLoads \in Nat /\ PageSize \in Nat \ {0} /\ Bits \in Nat \ {0}
    /\ Bases \subseteq Nat /\ \A base \in Bases : base >= PageSize
    /\ LibNames \subseteq Seq(STRING)
    /\ \A s \in Symbols \cup OldSymbols \cup NewSymbols : GnuHash[s] \in Nat /\ ElfHash[s] \in Nat

\* The device's libart, which is in memory from the start, can be linked to, and is in the
\* default namespace at first: the first library in memory whose path has its name.
IsArt(d, art) ==
    /\ \A f \in d.files : f.soname = LibArt <=> f = art
    /\ \E i \in DOMAIN d.preloaded : d.preloaded[i].file = art
    /\ \A i \in DOMAIN d.preloaded :
         Map!StrStr(d.preloaded[i].file.path, LibArt) # 0 <=> d.preloaded[i].file = art
    /\ Head(art.path) = "/" /\ art.img.sections \cap {"hash", "gnu_hash"} # {}
    /\ d.api < Q => art.ns = "default"

\* A device: its API level, its files (see MapUtil and ElfReader) with the linker
\* namespace each is loaded in, and those in memory from the start, in order.  A path
\* like [vdso] is that of no file, and a name that it ends with ends no path of a file.
IsDevice(d) ==
    /\ d.api \in Nat
    /\ \A f \in d.files : /\ f.path \in Seq(STRING) /\ f.path # <<>>
                          /\ f.ns \in {"default", "runtime", "app"}
                          /\ Map!IsLaidOut(f.segs) /\ Elf!IsImage(f.img)
    /\ \A f, g \in d.files : f.path = g.path => f = g
    /\ \A f, g \in d.files, name \in LibNames :
         IsSuffix(name, f.path) /\ IsSuffix(name, g.path) => (Head(f.path) = "/" <=> Head(g.path) = "/")
    /\ \A f \in d.files, base, other \in Bases : \A i \in DOMAIN f.segs :
         base < other => base + Map!PageStart(f.segs[i].vaddr) < other
    /\ d.preloaded \in Seq([base : Bases, file : {f \in d.files : f.ns # "app"}])
    /\ \A i, j \in DOMAIN d.preloaded :
         d.preloaded[i].base = d.preloaded[j].base \/ d.preloaded[i].file = d.preloaded[j].file => i = j
    /\ \E art \in d.files : IsArt(d, art)

ASSUME DevicesAssumption == \A d \in Devices : IsDevice(d)

VARIABLES
    device,      \* fixed from the start
    loaded,      \* the loader's list: libraries in memory, in order of loading
    loads,       \* how often the app has loaded one
    so_dl_info,  \* the client's handle
    answer,      \* what the client was told last, until something moves
    init_pc,     \* where Initialize stands
    art_handle,  \* what dlopen gave it
    pointers,    \* the symbols it has looked up
    init_done_

init == <<init_pc, art_handle, pointers, init_done_>>
dlvars == <<device, loaded, loads, so_dl_info, answer, init>>

NoHandle == [path |-> <<>>, base |-> 0]
NoAnswer == [op |-> "none"]

\* The handle and whether its library has been unloaded since (history).
NoInfo == [handle |-> NoHandle, moved |-> FALSE]

is_android_N == device.api \in {N, N_MR1}

In(f, base) == [path |-> f.path, base |-> base, segs |-> f.segs]

DlInit ==
    /\ device \in Devices
    /\ loaded = [i \in DOMAIN device.preloaded |->
                    In(device.preloaded[i].file, device.preloaded[i].base)]
    /\ loads = 0
    /\ so_dl_info = NoInfo /\ answer = NoAnswer
    /\ init_pc = "open" /\ art_handle = NoHandle /\ init_done_ = FALSE
    /\ pointers = [s \in {} |-> Null]

File(path) == CHOOSE f \in device.files : f.path = path

InMemory(path) == \E i \in DOMAIN loaded : loaded[i].path = path

BaseOf(path) == (CHOOSE l \in ToSet(loaded) : l.path = path).base

-----------------------------------------------------------------------------
(* The app and the loader.                                                 *)

Load(f, base) ==
    /\ loads < MaxLoads /\ loads' = loads + 1
    /\ f.ns = "app" /\ ~InMemory(f.path)
    /\ \A i \in DOMAIN loaded : loaded[i].base # base
    /\ loaded' = Append(loaded, In(f, base))
    /\ answer' = NoAnswer
    /\ UNCHANGED <<device, so_dl_info, init>>

Unload(i) ==
    /\ File(loaded[i].path).ns = "app"
    /\ loaded' = RemoveAt(loaded, i)
    /\ so_dl_info' = [so_dl_info EXCEPT !.moved = @ \/ so_dl_info.handle.path = loaded[i].path]
    /\ answer' = NoAnswer
    /\ UNCHANGED <<device, loads, init>>

\* The loader's own dlopen, for a caller in namespace ns: by the name of the file,
\* and not into another namespace since there are any.
LoaderOpen(name, ns) ==
    LET hits == {l \in ToSet(loaded) :
                    File(l.path).soname = name /\ (device.api < N \/ File(l.path).ns = ns)}
    IN IF hits = {} THEN NoHandle
       ELSE LET l == CHOOSE l \in hits : TRUE IN [path |-> l.path, base |-> l.base]

\* dl_iterate_callback: the first library whose path contains the name.
Containing(name) ==
    {i \in DOMAIN loaded : loaded[i].base # 0 /\ Map!StrStr(loaded[i].path, name) # 0}

\* Mutant: the last one.
IterateToLast(name) ==
    IF Containing(name) = {} THEN [path |-> name, base |-> 0]
    ELSE LET l == loaded[Max(Containing(name))] IN [path |-> l.path, base |-> l.base]

Iterate(name) ==
    IF Containing(name) = {} THEN [path |-> name, base |-> 0]
    ELSE LET l == loaded[Min(Containing(name))] IN [path |-> l.path, base |-> l.base]

-----------------------------------------------------------------------------
(* dlopen and dlsym.                                                       *)

\* The namespace of an address, the default one if there is nothing.
NamespaceAt(base) ==
    IF base = 0 THEN "default"
    ELSE File((CHOOSE l \in ToSet(loaded) : l.base = base).path).ns

\* As a caller at dlerror, in the default namespace; since Q, when that fails, as
\* a caller inside the library itself.
OpenAsCaller(name) ==
    LET handle == LoaderOpen(name, NamespaceAt(0))
    IN IF device.api < Q \/ handle # NoHandle THEN handle
       ELSE LoaderOpen(name, NamespaceAt(Iterate(name).base))

dlopen(name) ==
    CASE is_android_N     -> Iterate(name)
      [] device.api < N   -> LoaderOpen(name, "default")
      [] OTHER            -> OpenAsCaller(name)

\* The address a symbol of a file has in memory, and may be asked for by: dynamic
\* symbols need a hash table.
Definition(f, symbol) ==
    LET img == f.img
        dynamic == {n \in 1..(Elf!Entries(img) - 1) :
            Elf!Dynsym(img, n).name = symbol /\ Elf!Dynsym(img, n).value # 0}
        static == {i \in DOMAIN img.symtab :
            img.symtab[i].name = symbol /\ img.symtab[i].value # 0}
    IN IF dynamic # {} THEN {Elf!Dynsym(img, n).value : n \in dynamic}
       ELSE {img.symtab[i].value : i \in static}

Exports(f, symbol) ==
    \E n \in 1..(Elf!Entries(f.img) - 1) :
        Elf!Dynsym(f.img, n).name = symbol /\ Elf!Dynsym(f.img, n).value # 0

\* The file is read again for every symbol.
LookupInFile(handle, symbol, only_dynsym) ==
    LET img == File(handle.path).img
    IN IF Elf!Init(img) THEN Elf!LookupSymbol(img, symbol, handle.base, only_dynsym) ELSE Null

dlsym(handle, symbol) ==
    IF is_android_N
    THEN IF Head(handle.path) # "/" THEN Null ELSE LookupInFile(handle, symbol, TRUE)
    ELSE IF handle = NoHandle \/ ~Exports(File(handle.path), symbol) THEN Null
    ELSE handle.base + Min(Definition(File(handle.path), symbol))

-----------------------------------------------------------------------------
(* HprofDump::Initialize.                                                  *)

Wanted == IF device.api < R THEN OldSymbols ELSE IF device.api <= U THEN NewSymbols ELSE {}

InitOpen ==
    /\ init_pc = "open" /\ ~init_done_ /\ device.api >= L
    /\ init_pc' = "lookup"
    /\ art_handle' = dlopen(LibArt)
    /\ UNCHANGED <<device, loaded, loads, so_dl_info, answer, pointers, init_done_>>

InitLookup(symbol) ==
    /\ init_pc = "lookup" /\ symbol \in Wanted \ DOMAIN pointers
    /\ pointers' = [s \in DOMAIN pointers \cup {symbol} |->
                       IF s = symbol THEN dlsym(art_handle, symbol) ELSE pointers[s]]
    /\ UNCHANGED <<device, loaded, loads, so_dl_info, answer, init_pc, art_handle, init_done_>>

\* dlclose, and done, whatever was found.
InitDone ==
    /\ init_pc = "lookup" /\ DOMAIN pointers = Wanted
    /\ init_pc' = "done" /\ init_done_' = TRUE
    /\ art_handle' = NoHandle
    /\ UNCHANGED <<device, loaded, loads, so_dl_info, answer, pointers>>

-----------------------------------------------------------------------------
(* dlopen_elf, dlsym_elf and dlclose_elf.                                  *)

OpenElf(name) ==
    /\ so_dl_info = NoInfo
    /\ LET found == Map!GetLoadInfo(loaded, name, device.api)
           ok == found # Map!NotFound /\ Head(found.path) = "/"
       IN /\ so_dl_info' = IF ok THEN [handle |-> found, moved |-> FALSE] ELSE NoInfo
          /\ answer' = [op |-> "open", name |-> name, ok |-> ok]
    /\ UNCHANGED <<device, loaded, loads, init>>

SymElf(symbol) ==
    /\ so_dl_info # NoInfo
    /\ answer' = [op |-> "sym", symbol |-> symbol,
                  addr |-> LookupInFile(so_dl_info.handle, symbol, FALSE)]
    /\ UNCHANGED <<device, loaded, loads, so_dl_info, init>>

CloseElf ==
    /\ so_dl_info # NoInfo
    /\ so_dl_info' = NoInfo /\ answer' = NoAnswer
    /\ UNCHANGED <<device, loaded, loads, init>>

DlNext ==
    \/ \E f \in device.files, base \in Bases : Load(f, base)
    \/ \E i \in DOMAIN loaded : Unload(i)
    \/ InitOpen \/ InitDone \/ \E s \in Wanted : InitLookup(s)
    \/ \E name \in LibNames : OpenElf(name)
    \/ \E s \in Symbols : SymElf(s)
    \/ CloseElf

DlSpec == DlInit /\ [][DlNext]_dlvars

-----------------------------------------------------------------------------
(* Properties.                                                             *)

Asked == answer.op = "sym"

Handle == so_dl_info.handle

\* The library was found by the memory map, and its code does not start a page.
OffPage == device.api <= Map!L_MR1 /\ \E s \in ToSet(File(Handle.path).segs) :
               s.exec /\ s.vaddr % PageSize # 0

\* The full table lists it as a function, but of some other library.
OnlyImported(symbol) ==
    LET img == File(Handle.path).img
    IN /\ ~Exports(File(Handle.path), symbol)
       /\ Elf!Candidates(img, symbol) # {}
       /\ img.symtab[Min(Elf!Candidates(img, symbol))].value = 0

\* An address that dlsym_elf returns is that of the symbol in the library as it is
\* loaded now, unless the library was unloaded after dlopen_elf, has code off a page
\* boundary on Android 5, or imports the symbol and was not stripped.  In particular a
\* lookup never strays beyond the symbol table, although the walk of an empty bucket
\* starts among the words before the chains.
AddressIsTrue ==
    Asked /\ answer.addr # Null =>
        \/ so_dl_info.moved \/ OffPage \/ OnlyImported(answer.symbol)
        \/ InMemory(Handle.path)
             /\ answer.addr - BaseOf(Handle.path) \in Definition(File(Handle.path), answer.symbol)

\* In reach of a lookup: exported and in a hash table, or in the full table.
Reachable(f, symbol) ==
    /\ Elf!Init(f.img)
    /\ \/ Exports(f, symbol) /\ f.img.sections \cap {"hash", "gnu_hash"} # {}
       \/ "symtab" \in f.img.sections /\
            \E i \in Elf!Candidates(f.img, symbol) : f.img.symtab[i].value # 0

\* EndsWith looks at the first place of the name in the path only.
NameTwice(path, name) == Map!StrStr(path, name) < Len(path) - Len(name) + 1

\* What is loaded is opened, by its own name and no other, unless its path has the name
\* in another place too; and what its file defines is found, by either hash table or
\* without one, through the memory map or the loader.
LoadedIsFound ==
    /\ answer.op = "open" =>
           IF answer.ok THEN IsSuffix(answer.name, Handle.path)
           ELSE \A l \in ToSet(loaded) : Head(l.path) = "/" =>
                    ~IsSuffix(answer.name, l.path) \/ NameTwice(l.path, answer.name)
    /\ Asked /\ answer.addr = Null => ~Reachable(File(Handle.path), answer.symbol)

\* Once init_done_ is set every symbol that the device's libart exports has been
\* resolved to its address there, whatever else the app has loaded and on both sides
\* of each change of the loader; on Android 7 if its file can be read.
InitResolves ==
    init_done_ => \A s \in Wanted, f \in device.files :
        f.soname = LibArt =>
            pointers[s] = IF Exports(f, s) /\ (is_android_N => Elf!Init(f.img))
                            THEN BaseOf(f.path) + Min(Definition(f, s)) ELSE Null
=============================================================================
