-------------------------------- MODULE MCDlFcn --------------------------------
(* Instances of DlFcn for TLC: Android versions and library files.             *)
EXTENDS DlFcn

\* Chosen so that names share buckets, and that names a file does not define pass its
\* bloom filter and fall into empty buckets.
Names == {"", "f", "g", "h", "z", "malloc", "SuspendVM", "ResumeVM", "ScopedSuspendAll",
          "mutator_lock_"}

SomeHash == [n \in Names |->
    CASE n = "f" -> 6  [] n = "g" -> 11  [] n = "h" -> 9  [] n = "z" -> 8  [] n = "malloc" -> 14
      [] n = "SuspendVM" -> 4  [] n = "ResumeVM" -> 12  [] n = "ScopedSuspendAll" -> 17
      [] n = "mutator_lock_" -> 21  [] OTHER -> 0]

Sym(n, v)     == [name |-> n, value |-> v]
Full(n, v, t) == [name |-> n, value |-> v, type |-> t]

Image(sections, nbucket, shift2, before, symbols, symtab) ==
    [readable |-> TRUE, truncated |-> FALSE, sections |-> sections \cup {"dynsym", "dynstr"}, nbucket |-> nbucket,
     maskwords |-> 2, shift2 |-> shift2, before |-> before,
     dynsym |-> <<Sym("", 0)>> \o symbols, symtab |-> symtab]

Segment(vaddr, offset, exec) == [vaddr |-> vaddr, offset |-> offset, exec |-> exec]

OneCode  == <<Segment(0, 0, TRUE), Segment(24, 16, FALSE)>>
TwoParts == <<Segment(0, 0, FALSE), Segment(16, 8, TRUE), Segment(32, 16, FALSE)>>
OffPages == <<Segment(0, 0, FALSE), Segment(19, 11, TRUE)>>

FileOf(path, soname, ns, segs, img) ==
    [path |-> path, soname |-> soname, ns |-> ns, segs |-> segs, img |-> img]

Art(ns, sections, symbols) ==
    FileOf(<<"/", "system/", "libart.so">>, LibArt, ns, OneCode,
           Image(sections, 4, 3, 0, <<Sym("malloc", 0)>> \o symbols, <<>>))

OldArt == <<Sym("SuspendVM", 3), Sym("ResumeVM", 5)>>
NewArt == <<Sym("ScopedSuspendAll", 2), Sym("mutator_lock_", 4)>>

\* Its path has the name of the library in two places.
Twice(f) == [f EXCEPT !.path = <<"/", "data/", "libfoo.so", "-1/", "libfoo.so">>]

Unreadable(f) == [f EXCEPT !.img.readable = FALSE]
Truncated(f)  == [f EXCEPT !.img.truncated = TRUE]

\* A library of the app whose name ends like libart's.
MyArt == FileOf(<<"/", "data/", "my", "libart.so">>, <<"my", "libart.so">>, "app", OneCode,
                Image({"hash"}, 1, 3, 0, <<Sym("SuspendVM", 9), Sym("ScopedSuspendAll", 9)>>, <<>>))

Foo(segs, sections, before) ==
    FileOf(<<"/", "data/", "libfoo.so">>, <<"libfoo.so">>, "app", segs,
           Image(sections, 4, 3, before,
                 <<Sym("malloc", 0), Sym("SuspendVM", 0), Sym("f", 17), Sym("g", 18)>>,
                 <<Full("h", 0, "NOTYPE"), Full("h", 21, "FUNC"), Full("f", 17, "FUNC"),
                   Full("malloc", 0, "FUNC")>>))

\* Exports nothing: an empty bloom filter is all that keeps a lookup out.
Empty == FileOf(<<"/", "data/", "libfoo.so", ".old">>, <<"libfoo.so", ".old">>, "app", TwoParts,
                Image({"gnu_hash"}, 1, 3, 0, <<>>, <<>>))

Vdso == FileOf(<<"[vdso]">>, <<"[vdso]">>, "default", OneCode,
               Image({"hash"}, 1, 3, 0, <<Sym("g", 6)>>, <<>>))

Device(api, art, app) ==
    [api |-> api, files |-> {art, Vdso} \cup app, 
     preloaded |-> <<[base |-> 100, file |-> Vdso], [base |-> 200, file |-> art]>>]

Both == {"hash", "gnu_hash"}
Unstripped == {"symtab", "strtab"}

SomeDevices ==
    {Device(22, Art("default", {"hash"}, OldArt), {Foo(TwoParts, {"hash"} \cup Unstripped, 0), Empty}),
     Device(22, Art("default", {"hash"}, OldArt), {Foo(OffPages, Both, 0)}),
     Device(22, Art("default", {"hash"}, OldArt), {Foo(OneCode, {}, 0)}),
     Device(23, Art("default", Both, OldArt), {Foo(OneCode, Both \cup Unstripped, 1), MyArt}),
     Device(24, Art("default", Both, OldArt), {MyArt, Foo(OffPages, {"gnu_hash"}, 0)}),
     Device(25, Art("default", {"hash"}, OldArt), {MyArt, Empty}),
     Device(25, Unreadable(Art("default", Both, OldArt)), {MyArt, Truncated(Foo(OneCode, Both, 0))}),
     Device(28, Art("default", Both, OldArt), {MyArt, Empty, Twice(Foo(OneCode, Both, 0))}),
     Device(29, Art("runtime", Both, OldArt), {MyArt, Foo(TwoParts, Both, 0)}),
     Device(34, Art("runtime", Both, NewArt), {MyArt, Foo(OffPages, Unstripped, 0)}),
     Device(35, Art("runtime", {"gnu_hash"}, NewArt), {MyArt, Foo(OneCode, Both, 0)})}

FooPath == <<"/", "data/", "libfoo.so">>

SomeNames == {<<"libfoo.so">>, FooPath, <<"libfoo.so", ".old">>, <<"[vdso]">>}
=============================================================================
