------------------------------- MODULE ElfReader -------------------------------
(***************************************************************************)
(* Looking a symbol up in the file of a shared library: ElfReader.         *)
(*                                                                         *)
(* An image is what the file holds: the sections it has, the dynamic       *)
(* symbols (imports, value 0, before exports) and the full symbol table.   *)
(* The two hash tables are built from these as the link editor builds      *)
(* them; the GNU one keeps its words in file order, because a lookup in an *)
(* empty bucket reads the words that lie before the chains.                *)
(***************************************************************************)
EXTENDS Integers, Sequences, FiniteSets, FiniteSetsExt

CONSTANTS GnuHash, ElfHash,  \* the two hash functions, on the names in use
          Bits               \* width of a word of the GNU table (32 in the code)

Null == 0

-----------------------------------------------------------------------------
(* The file, as the link editor wrote it.                                  *)

Dynsym(img, n) == img.dynsym[n + 1]

Entries(img) == Len(img.dynsym)

\* Imports come first: the GNU table covers what follows them.
SymOffset(img) ==
    Min({n \in 1..(Entries(img) - 1) : Dynsym(img, n).value # 0} \cup {Entries(img)})

Exported(img) == SymOffset(img)..(Entries(img) - 1)

GnuBucketOf(img, n) == GnuHash[Dynsym(img, n).name] % img.nbucket

GnuBucket(img) == [b \in 1..img.nbucket |->
    LET inside == {n \in Exported(img) : GnuBucketOf(img, n) = b - 1}
    IN IF inside = {} THEN 0 ELSE Min(inside)]

\* The hash of each export, its lowest bit set on the last of a bucket.
GnuChain(img) == [i \in 1..(Entries(img) - SymOffset(img)) |->
    LET n == SymOffset(img) + i - 1
        last == n = Entries(img) - 1 \/ GnuBucketOf(img, n + 1) # GnuBucketOf(img, n)
    IN 2 * (GnuHash[Dynsym(img, n).name] \div 2) + (IF last THEN 1 ELSE 0)]

BloomBits(img, h) == {h % Bits, (h \div (2^img.shift2)) % Bits}

BloomWordOf(img, h) == (h \div Bits) % img.maskwords

\* A word of the filter is the set of its bits.
Bloom(img) == [w \in 1..img.maskwords |->
    UNION {BloomBits(img, h) : h \in {g \in {GnuHash[Dynsym(img, n).name] : n \in Exported(img)} :
                                         BloomWordOf(img, g) = w - 1}}]

\* What lies before the chains.
GnuHead(img) ==
    <<img.nbucket, SymOffset(img), img.maskwords, img.shift2>>
        \o [w \in 1..img.maskwords |-> SumSet({2^b : b \in Bloom(img)[w]})]
        \o GnuBucket(img)

\* The SysV table covers imports too; a new symbol goes to the head of its chain.
ElfBucketOf(img, n) == ElfHash[Dynsym(img, n).name] % img.nbucket

HashSection(img) ==
    <<img.nbucket, Entries(img)>>
        \o [b \in 1..img.nbucket |->
               Max({0} \cup {n \in 1..(Entries(img) - 1) : ElfBucketOf(img, n) = b - 1})]
        \o [i \in 1..Entries(img) |->
               Max({0} \cup {m \in 1..(i - 2) : ElfBucketOf(img, m) = ElfBucketOf(img, i - 1)})]

\* A name is listed once, with one value, and the null symbol and the imports come
\* first.  With a GNU table the exports are sorted by bucket.
IsImage(img) ==
    /\ img.nbucket \in Nat \ {0} /\ img.maskwords \in Nat \ {0}
    /\ {"dynsym", "dynstr"} \subseteq img.sections
    /\ img.dynsym \in Seq([name : STRING, value : Nat]) /\ img.dynsym # <<>>
    /\ Dynsym(img, 0).value = 0
    /\ \A n \in 0..(Entries(img) - 1) :
         GnuHash[Dynsym(img, n).name] \in Nat /\ ElfHash[Dynsym(img, n).name] \in Nat
    /\ \A m, n \in 0..(Entries(img) - 1) :
         /\ Dynsym(img, m).name = Dynsym(img, n).name => m = n
         /\ m < n /\ Dynsym(img, n).value = 0 => Dynsym(img, m).value = 0
    /\ "gnu_hash" \in img.sections =>
         \A m, n \in Exported(img) : m < n => GnuBucketOf(img, m) <= GnuBucketOf(img, n)
    /\ img.symtab \in Seq([name : STRING, value : Nat, type : STRING])
    /\ \A n \in Exported(img), i \in DOMAIN img.symtab :
         img.symtab[i].name = Dynsym(img, n).name /\ img.symtab[i].type \in {"FUNC", "OBJECT"} =>
             img.symtab[i].value = Dynsym(img, n).value

-----------------------------------------------------------------------------
(* The reader.                                                             *)

\* FileElfWrapper: the file can be opened and mapped.
IsValid(img) == img.readable

\* ... and its section table, the last thing in it, has not been cut off.
Init(img) == IsValid(img) /\ ~img.truncated

\* A table is there if its section is: one of each kind.
HasTables(img, hash) == {hash, "dynsym", "dynstr"} \subseteq img.sections

ElfBucket(img, b) == HashSection(img)[2 + b + 1]

ElfChain(img, n) == HashSection(img)[2 + img.nbucket + n + 1]

ElfWalk(img, symbol) ==
    LET walk[n \in 0..(Entries(img) - 1)] ==
            IF n = 0 THEN 0
            ELSE IF Dynsym(img, n).name = symbol THEN Dynsym(img, n).value
            ELSE walk[ElfChain(img, n)]
    IN walk

LookupByElfHash(img, symbol) ==
    IF HasTables(img, "hash")
    THEN ElfWalk(img, symbol)[ElfBucket(img, ElfHash[symbol] % img.nbucket)] ELSE 0

\* A lookup that has left the symbol table.
Astray == -1

\* gnu_chain points symoffset words before the first chain: for the null symbol and
\* the imports it reads buckets, bloom words, the header, or what lies before.
GnuWord(img, n) ==
    LET i    == n - SymOffset(img) + 1
        head == Len(GnuHead(img)) + i
    IN CASE i > 0                -> GnuChain(img)[i]
         [] i <= 0 /\ head > 0   -> GnuHead(img)[head]
         [] i <= 0 /\ head <= 0  -> img.before

\* Mutant: no bloom filter.
BloomAlwaysMaybe(img, h) == TRUE

BloomSaysMaybe(img, h) == BloomBits(img, h) \subseteq Bloom(img)[BloomWordOf(img, h) + 1]

GnuMatch(img, symbol, n) ==
    GnuWord(img, n) \div 2 = GnuHash[symbol] \div 2 /\ Dynsym(img, n).name = symbol

\* Where the loop ends: at the symbol, at the end of a chain, or behind the table.
GnuStops(img, symbol, from) ==
    {n \in from..(Entries(img) - 1) : GnuMatch(img, symbol, n) \/ GnuWord(img, n) % 2 = 1}
        \cup {Entries(img)}

\* The bucket may be empty (0): the walk then starts at the null symbol.
LookupByGnuHash(img, symbol) ==
    LET h    == GnuHash[symbol]
        stop == Min(GnuStops(img, symbol, GnuBucket(img)[(h % img.nbucket) + 1]))
    IN IF ~HasTables(img, "gnu_hash") \/ ~BloomSaysMaybe(img, h) THEN 0
       ELSE CASE stop = Entries(img) -> Astray
              [] stop # Entries(img) /\ GnuMatch(img, symbol, stop)  -> Dynsym(img, stop).value
              [] stop # Entries(img) /\ ~GnuMatch(img, symbol, stop) -> 0

\* Functions and objects of the full table, undefined ones (value 0) among them.
Candidates(img, symbol) ==
    {i \in DOMAIN img.symtab : "symtab" \in img.sections
        /\ img.symtab[i].type \in {"FUNC", "OBJECT"} /\ img.symtab[i].name = symbol}

LookupByHash(img, symbol) ==
    IF "gnu_hash" \in img.sections THEN LookupByGnuHash(img, symbol)
                                   ELSE LookupByElfHash(img, symbol)

LookupSymbol(img, symbol, load_base, only_dynsym) ==
    LET vaddr == LookupByHash(img, symbol)
    IN CASE vaddr = Astray -> Astray
         [] vaddr \notin {0, Astray} -> load_base + vaddr
         [] vaddr = 0 /\ (only_dynsym \/ Candidates(img, symbol) = {}) -> Null
         [] OTHER -> load_base + img.symtab[Min(Candidates(img, symbol))].value
=============================================================================
