---------------------------- MODULE MCKernelImage ----------------------------
(* An image of 23 words in three segments: text, per-CPU data with a gap on   *)
(* both sides, data that ends in zeros and a bss.  Kernels with any of eight  *)
(* references, in each encoding; wrappers, whole and broken; banners.         *)
EXTENDS KernelImage

Base == Wide - W + W \div 2 + LOAD_PHYSICAL_ADDR
Alloc == 23
Text == 0..6
Percpu == 8..10

MCName == [r \in 401..406 |->
    [len |-> IF r = 403 THEN 9 ELSE IF r = 404 THEN 0 ELSE 3, dots |-> r = 405,
     bytes |-> IF r = 406 THEN {"graphic", "slash"} ELSE {"graphic"}]]
Banner(r) == <<PREFIX, r, IDENTITY, 0>>

\* Symbols; at the end the ones of broken kernels.
Sym(name, shndx, value) == [name |-> name, shndx |-> shndx, value |-> value, size |-> 0]
Symbols(smp) == <<
    Sym("text", 1, Base + 5), Sym("jiffies", SHN_ABS, Base + 12), Sym("CONST", SHN_ABS, 7),
    Sym("var", 2, IF smp THEN 1 ELSE Base + 9), Sym("__per_cpu_load", 2, Base + 8), Sym("weak", SHN_UNDEF, 0),
    Sym("init_per_cpu__var", 2, Base + 9), Sym("far", SHN_XINDEX, Base + 1)>>

Moves(smp, sym) == sym \in {1, 2, 5, 7} \/ (sym = 4 /\ ~smp)

\* A reference: image offset, type, symbol.
Ref(smp, o, type, sym) ==
    [at |-> o, type |-> type, sym |-> sym, value |-> Symbols(smp)[sym].value, moves |-> Moves(smp, sym),
     place |-> IF smp /\ o \in Percpu THEN o - 8 ELSE Base + o, placeMoves |-> ~(smp /\ o \in Percpu),
     note |-> o \in 16..17]

Optional(smp) == {Ref(smp, 0, "64", 1), Ref(smp, 2, "32S", 2), Ref(smp, 3, "PC32", 4), Ref(smp, 4, "PLT32", 1),
                  Ref(smp, 8, "64", 1), Ref(smp, 12, "64", 5), Ref(smp, 14, "32", 4), Ref(smp, 15, "PC32", 4)}
Always(smp) == {Ref(smp, 5, "32", 3), Ref(smp, 6, "32", 6), Ref(smp, 10, "32S", 7), Ref(smp, 16, "64", 1),
                Ref(smp, 18, "PC64", 2)}

Plain == [o \in 0..(Alloc - 1) |-> IF o \in Text THEN 1 ELSE 0]
Kernel(smp, refs) == [smp |-> smp, refs |-> refs, plain |-> Plain]
WithBanner(k, o, r) ==
    [k EXCEPT !.plain = [p \in DOMAIN @ |-> IF p \in o..(o + 3) THEN Banner(r)[p - o + 1] ELSE @[p]]]

\* What the kernel's relocs tool lists: the fields that change with the base.
Changes(r) == ~r.note /\ FieldAt(r, 1) # FieldAt(r, 0)
Places(k, P(_)) == [i \in DOMAIN SetToSeq({r \in k.refs : Changes(r) /\ P(r)}) |->
                      (Base + SetToSeq({r \in k.refs : Changes(r) /\ P(r)})[i].at) % W]
Sixty4(r) == r.type = "64"
Inverse32(r) == r.type = "PC32"
Thirty2(r) == r.type \in {"32", "32S"}
Appended(k, enc) ==
    CASE enc = "new" -> <<0>> \o Places(k, Sixty4) \o <<0>> \o Places(k, Thirty2)
      [] enc = "old" -> <<0>> \o Places(k, Sixty4) \o <<0>> \o Places(k, Inverse32) \o <<0>> \o Places(k, Thirty2)
      [] OTHER -> <<>>
Needs3(k) == \E r \in k.refs : Changes(r) /\ Inverse32(r)

\* The file: a header, then the segments, the section headers and the symbol
\* table in one of three orders, then the table.
Words(k, from, to) == [i \in 1..(to - from + 1) |-> Linked(k, 0)[from + i - 1]]
Segments(k) == Words(k, 0, 6) \o Words(k, 8, 10) \o Words(k, 12, 20)
Start(last) == IF last = "segments" THEN 4 ELSE 1
Headers(last) == CASE last = "segments" -> 1 [] last = "sections" -> 20 [] OTHER -> 21
Symtab(last) == CASE last = "segments" -> 3 [] last = "sections" -> 22 [] OTHER -> 20
FileWords(k, enc, last) ==
    (CASE last = "segments" -> <<9, 0, 3, 0>> \o Segments(k)
       [] last = "sections" -> <<9>> \o Segments(k) \o <<0, 3, 0>>
       [] OTHER -> <<9>> \o Segments(k) \o <<0, 0, 3>>) \o Appended(k, enc)

Sec(name, type, alloc, addr, off, size) ==
    [name |-> name, type |-> type, alloc |-> alloc, addr |-> addr, off |-> off, size |-> size]
Seg(paddr, vaddr, off, filesz, memsz) ==
    [load |-> TRUE, paddr |-> paddr, vaddr |-> vaddr, off |-> off, filesz |-> filesz, memsz |-> memsz]

\* The section of an image offset, and the offset of a relocation against it.
SecAt(o) == CASE o \in Text -> 1 [] o \in Percpu -> 2 [] o \in 12..15 -> 3 [] o \in 16..17 -> 4 [] OTHER -> 5
RelaOf(k, sec) == [info |-> sec, rels |->
    LET mine == SetToSeq({r \in k.refs : SecAt(r.at) = sec})
    IN  [i \in DOMAIN mine |-> [type |-> mine[i].type, off |-> mine[i].place, sym |-> mine[i].sym]]]
Debug == [info |-> 7, rels |-> <<[type |-> "64", off |-> 0, sym |-> 1], [type |-> "8", off |-> 0, sym |-> 9]>>]

ElfOf(k, enc, last) ==
    LET s == Start(last)
        percpu == IF k.smp THEN 0 ELSE Base + 8
    IN  [parses |-> TRUE, x86 |-> TRUE, entry |-> LOAD_PHYSICAL_ADDR + 2, shEnd |-> Headers(last) + 2,
         segs |-> <<Seg(LOAD_PHYSICAL_ADDR, Base, s, 7, 7), Seg(LOAD_PHYSICAL_ADDR + 8, percpu, s + 7, 3, 3),
                    Seg(LOAD_PHYSICAL_ADDR + 12, Base + 12, s + 10, 9, 11),
                    [Seg(0, 0, 0, 0, 0) EXCEPT !.load = FALSE]>>,
         secs |-> <<Sec(".text", "PROGBITS", TRUE, Base, s, 7), Sec(".data..percpu", "PROGBITS", TRUE, percpu, s + 7, 3),
                    Sec(".data", "PROGBITS", TRUE, Base + 12, s + 10, 4), Sec(".notes", "NOTE", TRUE, Base + 16, s + 14, 2),
                    Sec(".late", "PROGBITS", TRUE, Base + 18, s + 16, 3), Sec(".bss", "NOBITS", TRUE, Base + 21, s + 19, 99),
                    Sec(".debug", "PROGBITS", FALSE, 0, s, 1), Sec(".symtab", "SYMTAB", FALSE, 0, Symtab(last), 1)>>,
         syms |-> Symbols(k.smp), dynsyms |-> <<>>, symtabs |-> {}, badDynsym |-> FALSE,
         relas |-> IF enc = "rela" THEN <<RelaOf(k, 1), Debug, RelaOf(k, 2), RelaOf(k, 3), RelaOf(k, 4), RelaOf(k, 5)>> ELSE <<>>,
         words |-> FileWords(k, enc, last)]

----------------------------------------------------------------------------
\* Files and wrappers.
NoPe == [parses |-> FALSE, sections |-> <<>>]
NoZboot == [inFile |-> FALSE, comp |-> "none", out |-> Broken]
Junk == [len |-> 99, mz |-> FALSE, zimg |-> FALSE, arm |-> FALSE, elf |-> FALSE, hdrs |-> FALSE, pe |-> NoPe,
         zboot |-> NoZboot, hits |-> <<>>, body |-> [words |-> <<1>>]]
Vmlinux(e) == [Junk EXCEPT !.elf = TRUE, !.body = e]
Arm64(words) == [Junk EXCEPT !.mz = TRUE, !.arm = TRUE, !.body = [words |-> words]]
Section(name, vsize, raw, f) == [name |-> name, vsize |-> vsize, raw |-> raw, inFile |-> TRUE, payload |-> f]
Pe(sections) == [Junk EXCEPT !.mz = TRUE, !.pe = [parses |-> TRUE, sections |-> sections]]
UkiOf(f) == Pe(<<Section(".osrel", 1, 1, Junk), Section(".linux", 3, 4, f), Section(".initrd", 2, 2, Junk)>>)
ZbootOf(comp, f) == [Junk EXCEPT !.mz = TRUE, !.zimg = TRUE, !.zboot = [inFile |-> TRUE, comp |-> comp, out |-> f]]
Hit(magic, f) == [magic |-> magic, out |-> f]
Bz(hits) == [Pe(<<Section(".setup", 1, 1, Junk)>>) EXCEPT !.hdrs = TRUE, !.hits = hits]
GzipBz(f) == Bz(<<Hit("gzip", Broken), Hit("zstd", Broken), Hit("gzip", Junk), Hit("gzip", f), Hit("gzip", Broken)>>)
ZstdBz(f) == Bz(<<Hit("zstd", Junk), Hit("gzip", Junk), Hit("zstd", f)>>)

In(f, k, modules, whole) == [file |-> f, kernel |-> k, modules |-> modules, whole |-> whole]

Kernels == UNION {{Kernel(smp, Always(smp) \cup refs) : refs \in SUBSET Optional(smp)} : smp \in BOOLEAN}
Encodings(k) == {"rela", "old"} \cup (IF Needs3(k) THEN {} ELSE {"new"})
Lasts == {"headers", "sections", "segments"}

Built == UNION {{In(Vmlinux(ElfOf(k, enc, "sections")), k, FALSE, TRUE) : enc \in Encodings(k)} : k \in Kernels}

\* One kernel of each encoding, in every wrapper.
Few(smp) == Kernel(smp, Always(smp) \cup {Ref(smp, 0, "64", 1)})
FewFiles == {[f |-> Vmlinux(ElfOf(Few(FALSE), "new", "headers")), k |-> Few(FALSE)],
             [f |-> Vmlinux(ElfOf(Few(TRUE), "old", "sections")), k |-> Few(TRUE)]}
Ordered == UNION {UNION {{In(Vmlinux(ElfOf(k, enc, last)), k, FALSE, TRUE) : enc \in Encodings(k), last \in Lasts} : k \in {Few(smp)}} : smp \in BOOLEAN}
Wrapped == UNION {{In(g, x.k, FALSE, TRUE) : g \in {UkiOf(x.f), GzipBz(x.f), ZstdBz(x.f), UkiOf(GzipBz(x.f)), UkiOf(ZstdBz(x.f))}} : x \in FewFiles}

ArmKernel(words) == [smp |-> FALSE, refs |-> {}, plain |-> FromZero(words)]
ArmWords(r) == <<5, 0>> \o Banner(r)
ArmFiles(words) == LET f == Arm64(words) IN {f, ZbootOf("gzip", f), ZbootOf("zstd", f), UkiOf(f), UkiOf(ZbootOf("gzip", f))}
ArmInputs == {In(f, ArmKernel(ArmWords(401)), m, TRUE) : f \in ArmFiles(ArmWords(401)), m \in BOOLEAN}
    \cup {In(Arm64(w), ArmKernel(w), TRUE, FALSE) :
            w \in {<<5, 0>>, ArmWords(403), ArmWords(404), ArmWords(405), ArmWords(406), <<1, PREFIX, 401>>,
                   <<0, PREFIX, 401, 7, 0>>, <<0, PREFIX, 401, IDENTITY>>, <<0, PREFIX, 9, IDENTITY, 0>>,
                   ArmWords(401) \o Banner(402), ArmWords(401) \o <<0, PREFIX, 7, 7, 7, 7, 7, 7, 0>>}}

Whole == Vmlinux(ElfOf(Few(TRUE), "old", "headers"))
BrokenFiles ==
    {Junk, [Whole EXCEPT !.len = 60], [Junk EXCEPT !.mz = TRUE], Pe(<<Section(".linux", 3, 4, Whole), Section(".linux", 3, 4, Whole)>>),
     Pe(<<Section(".linux", 0, 4, Whole)>>), Pe(<<Section(".linux", 5, 4, Whole)>>),
     Pe(<<[Section(".linux", 3, 4, Whole) EXCEPT !.inFile = FALSE]>>),
     ZbootOf("lzma", Whole), ZbootOf("gzip", Broken), [ZbootOf("gzip", Whole) EXCEPT !.zboot.inFile = FALSE],
     [ZbootOf("gzip", Whole) EXCEPT !.len = 40], Bz(<<>>), Bz(<<Hit("gzip", Junk), Hit("zstd", Broken)>>)}

\* Kernels that must be refused, or may be.
E == ElfOf(Few(TRUE), "old", "headers")
R == ElfOf(Few(TRUE), "rela", "headers")
Entry(type, sym) == Append(R.relas, [info |-> 1, rels |-> <<[type |-> type, off |-> Base + 2, sym |-> sym]>>])
BrokenElfs ==
    {[E EXCEPT !.parses = FALSE], [E EXCEPT !.x86 = FALSE], [E EXCEPT !.entry = LOAD_PHYSICAL_ADDR - 1],
     [E EXCEPT !.entry = LOAD_PHYSICAL_ADDR + Alloc], [E EXCEPT !.segs = <<>>], [E EXCEPT !.segs[3].memsz = Wide],
     [E EXCEPT !.segs[3].off = 99], [E EXCEPT !.words = SubSeq(@, 1, 23)], [E EXCEPT !.words = @ \o <<0>>],
     [E EXCEPT !.words = Append(SubSeq(@, 1, 23), 5)], [E EXCEPT !.words = @ \o <<3>>],
     [R EXCEPT !.relas = Append(@, [info |-> 77, rels |-> <<>>])], [R EXCEPT !.syms[5].name = "gone"],
     [R EXCEPT !.relas[1].rels[1].off = 0]}
      \cup {[R EXCEPT !.relas = Entry(x[1], x[2])] : x \in {<<"8", 1>>, <<"64", 8>>, <<"64", 9>>, <<"PC64", 4>>}}

BrokenInputs == {In(f, Few(TRUE), FALSE, FALSE) : f \in BrokenFiles \cup {Vmlinux(e) : e \in BrokenElfs}}

----------------------------------------------------------------------------
\* Banners at offset o of the image, with a symbol of the given fields.
BannerK(o, r) == WithBanner(Kernel(TRUE, {Ref(TRUE, 0, "64", 1), Ref(TRUE, 5, "32", 3)}), o, r)
Symbol(shndx, value, size) == [name |-> "linux_banner", shndx |-> shndx, value |-> value, size |-> size]
GoodSymbols == {Symbol(3, Base + 12, 0), Symbol(3, Base + 12, 4)}
BadSymbols == {Symbol(0, Base + 12, 4), Symbol(SHN_ABS, Base + 12, 4), Symbol(6, Base + 21, 4), Symbol(7, 0, 1),
               Symbol(3, Base + 12, 3), Symbol(3, Base + 12, 5), Symbol(3, Base + 16, 0), Symbol(3, Base + 11, 4)}
WithSymbol(e, s) == [e EXCEPT !.syms = Append(@, s)]
BE(o, r) == ElfOf(BannerK(o, r), "old", "headers")
\* Sections whose place in the file is not that of the segment.
Astray(e) == {[WithSymbol(e, Symbol(3, Base + 12, 0)) EXCEPT !.secs[3].off = f] : f \in {14, 1}}
\* A second banner, which follows no zero, in text, where a section that is astray finds it.
Decoy == LET k == [BannerK(12, 401) EXCEPT !.plain = [p \in DOMAIN @ |->
                     CASE p = 2 -> PREFIX [] p = 3 -> 402 [] p = 4 -> IDENTITY [] p = 5 -> 0 [] OTHER -> @[p]],
                   !.refs = {Ref(TRUE, 0, "64", 1)}]
         IN  k
DecoyElf == LET e == ElfOf(Decoy, "old", "headers") IN [WithSymbol(e, Symbol(3, Base + 12, 0)) EXCEPT !.secs[3].off = 3,
              !.words[12] = 7]
DecoyK == [Decoy EXCEPT !.plain[12] = 7]
ReleaseInputs ==
    {In(Vmlinux(WithSymbol(BE(12, 401), s)), BannerK(12, 401), TRUE, TRUE) : s \in GoodSymbols \cup {Sym("other", 1, 0)}}
      \cup {In(Vmlinux(WithSymbol(BE(12, 401), s)), BannerK(12, 401), TRUE, FALSE) : s \in BadSymbols}
      \cup {In(Vmlinux(e), BannerK(12, 401), TRUE, FALSE) : e \in Astray(BE(12, 401))}
      \cup {In(Vmlinux([BE(12, 401) EXCEPT !.dynsyms = <<s>>]), BannerK(12, 401), TRUE, s \in GoodSymbols) : s \in GoodSymbols \cup BadSymbols}
      \cup {In(Vmlinux([BE(12, 401) EXCEPT !.symtabs = {<<s>>}]), BannerK(12, 401), TRUE, s \in GoodSymbols) : s \in GoodSymbols \cup BadSymbols}
      \cup {In(Vmlinux([BE(12, 401) EXCEPT !.badDynsym = TRUE]), BannerK(12, 401), TRUE, FALSE)}
      \cup {In(Vmlinux(ElfOf(k, "old", "headers")), k, TRUE, FALSE) :
              k \in {Few(TRUE), WithBanner(BannerK(12, 401), 16, 402), BannerK(12, 403), BannerK(12, 406)}}
      \cup {In(Vmlinux(ElfOf(k, "old", "headers")), k, TRUE, TRUE) : k \in {WithBanner(BannerK(12, 401), 16, 401)}}
      \cup {In(Vmlinux(DecoyElf), DecoyK, TRUE, FALSE)}

MCInput == Built \cup Ordered \cup Wrapped \cup ArmInputs \cup BrokenInputs \cup ReleaseInputs
============================================================================
